---------------------------- MODULE Spec2Model ----------------------------
(***************************************************************************)
(* A model of agentui's protocol handler (the read pump and its queues),   *)
(* the listen command that multiplexes the queues into the Bubbletea       *)
(* program, and the application model's Update reducer.                    *)
(*                                                                         *)
(* Text is a sequence of one-character strings, so that concatenation and  *)
(* trimming are computed.  A pointer is a sequence of length at most one:  *)
(* Nil is the empty sequence, Ptr(x) the pointer to x.                     *)
(***************************************************************************)
EXTENDS Integers, Sequences, FiniteSets, TLC

VARIABLES
    model,          \* app.Model, the value the Bubbletea program holds
    running,        \* the Bubbletea program has not processed tea.Quit
    inbox,          \* results of listen commands on their way to Update
    listeners,      \* listen commands blocked in their select
    incoming,       \* Handler.incoming, the buffered channel
    incomingClosed, \* close(h.incoming) has run
    errors,         \* Handler.errors, the buffered channel
    done,           \* close(h.done) has run
    rl,             \* each readLoop goroutine: its position and what it holds
    wl,             \* each writeLoop goroutine: its position and what it holds
    outgoing,       \* Handler.outgoing, the buffered channel
    writeMu,        \* Handler.writeMu: a pointer to its holder
    calls,          \* callers of Send and SendSync other than Update: their position
    panicked,       \* a goroutine panicked: the process is gone
    ncalls,         \* calls of Send and SendSync begun so far by those callers
    written,        \* the envelopes written to Handler.writer, in order
    nlines,         \* lines the peer has written so far
    nkeys,          \* key presses so far
    produced,       \* history: what readLoop made of each line, in line order
    delivered,      \* history: the transport events Update has processed
    errFrom         \* history: the state the session was in when it entered StateError

vars == <<model, running, inbox, listeners, incoming, incomingClosed, errors,
          done, rl, wl, outgoing, writeMu, calls, panicked, ncalls, written, nlines,
          nkeys, produced, delivered, errFrom>>

(* The variables of the write side and of the process, which the read side  *)
(* and the session leave alone.                                            *)
wvars == <<wl, outgoing, writeMu, calls, ncalls>>
hvars == <<wl, outgoing, writeMu, calls, ncalls, panicked>>
(* The variables of the Bubbletea program, which the handler leaves alone. *)
svars == <<model, running, inbox, listeners, nkeys, errFrom>>

---------------------------------------------------------------------------
(* Bounds of the model. *)

MaxLines == 3
MaxKeys == 2
IncomingCap == 2
ErrorsCap == 2
OutgoingCap == 1
MaxPumps == 2
MaxCallers == 2
MaxCalls == 2

---------------------------------------------------------------------------
(* Pointers and text. *)

Nil == <<>>
Ptr(x) == <<x>>
Deref(p) == p[1]

RECURSIVE TrimLeft(_)
TrimLeft(s) == IF s # <<>> /\ Head(s) = " " THEN TrimLeft(Tail(s)) ELSE s

RECURSIVE TrimRight(_)
TrimRight(s) ==
    IF s # <<>> /\ s[Len(s)] = " " THEN TrimRight(SubSeq(s, 1, Len(s) - 1)) ELSE s

TrimSpace(s) == TrimRight(TrimLeft(s))

IsPrefix(s, t) == Len(s) <= Len(t) /\ SubSeq(t, 1, Len(s)) = s

---------------------------------------------------------------------------
(* protocol/types.go: message types, the envelope, the payloads. *)

TypeText == "text"
TypeMarkdown == "markdown"
TypeProgress == "progress"
TypeForm == "form"
TypeTable == "table"
TypeCode == "code"
TypeConfirm == "confirm"
TypeSelect == "select"
TypeAlert == "alert"
TypeSpinner == "spinner"
TypeStatus == "status"
TypeClear == "clear"
TypeDone == "done"
TypeUpdate == "update"

TypeInput == "input"
TypeFormResponse == "form_response"
TypeConfirmResponse == "confirm_response"
TypeSelectResponse == "select_response"
TypeCancel == "cancel"
TypeQuit == "quit"
TypeResize == "resize"

(* A JSON value is a record [k, v]: its kind and its value. A JSON object is *)
(* a function from member names to JSON values; an envelope's Payload is a  *)
(* pointer to an object (Nil when the line has no "payload" member).        *)
JStr(s) == [k |-> "string", v |-> s]
JBool(b) == [k |-> "bool", v |-> b]
JNum(n) == [k |-> "number", v |-> n]
JArr(a) == [k |-> "array", v |-> a]

Message(type, id, payload) == [Type |-> type, ID |-> id, Payload |-> payload]

(* encoding/json on a struct: a member of the wrong kind is an error, JSON   *)
(* null and absent members leave the field's zero value.                    *)
Mismatch(o, f, kind) == f \in DOMAIN o /\ o[f].k \notin {kind, "null"}
Field(o, f, kind, zero) == IF f \in DOMAIN o /\ o[f].k = kind THEN o[f].v ELSE zero

(* Message.ParsePayload: json.Unmarshal(m.Payload, v). An empty Payload is   *)
(* an error (unexpected end of JSON input). schema maps each field of v to  *)
(* the JSON kind it takes.                                                  *)
ParsePayloadErr(msg, schema) ==
    \/ msg.Payload = Nil
    \/ \E f \in DOMAIN schema : Mismatch(Deref(msg.Payload), f, schema[f])

PayloadField(msg, f, kind, zero) ==
    IF msg.Payload = Nil THEN zero ELSE Field(Deref(msg.Payload), f, kind, zero)

TextSchema == [content |-> "string", done |-> "bool"]
MarkdownSchema == [content |-> "string", title |-> "string"]
ProgressSchema == [message |-> "string", percent |-> "number", steps |-> "array"]
FormSchema == [title |-> "string", description |-> "string", fields |-> "array",
               submit_label |-> "string", cancel_label |-> "string"]
TableSchema == [title |-> "string", columns |-> "array", rows |-> "array",
                footer |-> "string"]
CodeSchema == [code |-> "string", language |-> "string", title |-> "string",
               line_numbers |-> "bool"]
ConfirmSchema == [message |-> "string", title |-> "string",
                  confirm_label |-> "string", cancel_label |-> "string",
                  destructive |-> "bool"]
SelectSchema == [label |-> "string", options |-> "array", default |-> "string"]
AlertSchema == [message |-> "string", title |-> "string", severity |-> "string"]
SpinnerSchema == [message |-> "string"]
StatusSchema == [message |-> "string", tokens |-> "object"]
ClearSchema == [scope |-> "string"]
DoneSchema == [summary |-> "string"]

---------------------------------------------------------------------------
(* Keys. A rune key is a printable character typed into a text widget.     *)

RuneKeys == {"a", " ", "y", "n", "h", "l", "j", "k"}

---------------------------------------------------------------------------
(* ui/components/forms.go: Form. Indexes are zero-based, as in the code.   *)

IsTextType(t) == t \in {"", "text", "password", "number"}

(* The index of the first option equal to s, 0 when there is none. *)
IndexOf(options, s) ==
    IF \E i \in 1..Len(options) : options[i] = s
    THEN (CHOOSE i \in 1..Len(options) :
              options[i] = s /\ \A j \in 1..(i - 1) : options[j] # s) - 1
    ELSE 0

(* One field of NewForm: f is an element of payload.Fields, with Default a  *)
(* pointer to a JSON value.                                                 *)
NewFormField(f) ==
    [Name |-> f.Name, Type |-> f.Type, Options |-> f.Options,
     text |-> IF IsTextType(f.Type) /\ f.Default # Nil /\ Deref(f.Default).k = "string"
              THEN Deref(f.Default).v ELSE <<>>,
     selectIndex |-> IF f.Type = "select" /\ f.Default # Nil
                        /\ Deref(f.Default).k = "string"
                     THEN IndexOf(f.Options, Deref(f.Default).v) ELSE 0,
     checked |-> f.Type = "checkbox" /\ f.Default # Nil
                 /\ Deref(f.Default).k = "bool" /\ Deref(f.Default).v]

NewForm(fields) ==
    [Fields |-> [i \in 1..Len(fields) |-> NewFormField(fields[i])],
     focusIndex |-> 0, submitted |-> FALSE, cancelled |-> FALSE]

nextField(f) ==
    [f EXCEPT !.focusIndex = IF f.focusIndex + 1 > Len(f.Fields) + 1
                             THEN 0 ELSE f.focusIndex + 1]

prevField(f) ==
    [f EXCEPT !.focusIndex = IF f.focusIndex - 1 < 0
                             THEN Len(f.Fields) + 1 ELSE f.focusIndex - 1]

OnField(f) == f.focusIndex < Len(f.Fields)
Focused(f) == f.Fields[f.focusIndex + 1]

CycleSelect(fld, step) ==
    LET n == Len(fld.Options)
    IN  [fld EXCEPT !.selectIndex = (fld.selectIndex + step + n) % n]

FormEnter(f) ==
    IF f.focusIndex = Len(f.Fields) THEN [f EXCEPT !.submitted = TRUE]
    ELSE IF f.focusIndex = Len(f.Fields) + 1 THEN [f EXCEPT !.cancelled = TRUE]
    ELSE IF Focused(f).Type = "select" /\ Len(Focused(f).Options) > 0
    THEN [f EXCEPT !.Fields[f.focusIndex + 1] = CycleSelect(@, 1)]
    ELSE IF Focused(f).Type = "checkbox"
    THEN [f EXCEPT !.Fields[f.focusIndex + 1].checked = ~@]
    ELSE f

FormLeftRight(f, key) ==
    IF OnField(f)
    THEN IF Focused(f).Type = "select" /\ Len(Focused(f).Options) > 0
         THEN [f EXCEPT !.Fields[f.focusIndex + 1] =
                            CycleSelect(@, IF key = "right" THEN 1 ELSE -1)]
         ELSE IF Focused(f).Type = "checkbox"
         THEN [f EXCEPT !.Fields[f.focusIndex + 1].checked = ~@]
         ELSE f
    ELSE [f EXCEPT !.focusIndex = IF f.focusIndex = Len(f.Fields)
                                  THEN Len(f.Fields) + 1 ELSE Len(f.Fields)]

(* The focused text input's own Update: a rune is appended to its value;    *)
(* any other message leaves the value as it is.                            *)
FormTextInput(f, msg) ==
    IF OnField(f) /\ IsTextType(Focused(f).Type)
       /\ msg.kind = "KeyMsg" /\ msg.key \in RuneKeys
    THEN [f EXCEPT !.Fields[f.focusIndex + 1].text = Append(@, msg.key)]
    ELSE f

FormUpdate(f, msg) ==
    IF msg.kind = "KeyMsg" /\ msg.key \in {"tab", "down"} THEN nextField(f)
    ELSE IF msg.kind = "KeyMsg" /\ msg.key \in {"shift+tab", "up"} THEN prevField(f)
    ELSE IF msg.kind = "KeyMsg" /\ msg.key = "enter" THEN FormEnter(f)
    ELSE IF msg.kind = "KeyMsg" /\ msg.key \in {"left", "right"}
    THEN FormLeftRight(f, msg.key)
    ELSE IF msg.kind = "KeyMsg" /\ msg.key = " "
    THEN IF OnField(f) /\ Focused(f).Type = "checkbox"
         THEN [f EXCEPT !.Fields[f.focusIndex + 1].checked = ~@] ELSE f
    ELSE IF msg.kind = "KeyMsg" /\ msg.key = "esc" THEN [f EXCEPT !.cancelled = TRUE]
    ELSE FormTextInput(f, msg)

FieldValue(fld) ==
    IF fld.Type = "select" THEN JStr(fld.Options[fld.selectIndex + 1])
    ELSE IF fld.Type = "checkbox" THEN JBool(fld.checked)
    ELSE JStr(fld.text)

HasValue(fld) ==
    fld.Type = "select" => (Len(fld.Options) > 0 /\ fld.selectIndex < Len(fld.Options))

(* Form.GetValues: the map from field name to value; a later field of the   *)
(* same name overwrites an earlier one.                                    *)
GetValues(f) ==
    LET idx == {i \in 1..Len(f.Fields) : HasValue(f.Fields[i])}
        last(n) == CHOOSE i \in idx :
                       f.Fields[i].Name = n
                       /\ \A j \in idx : f.Fields[j].Name = n => j <= i
    IN  [n \in {f.Fields[i].Name : i \in idx} |-> FieldValue(f.Fields[last(n)])]

---------------------------------------------------------------------------
(* ui/components/forms.go: ConfirmDialog and SelectMenu. *)

NewConfirmDialog == [focusConfirm |-> TRUE, confirmed |-> FALSE, responded |-> FALSE]

ConfirmUpdate(c, msg) ==
    IF msg.kind # "KeyMsg" THEN c
    ELSE IF msg.key \in {"left", "right", "tab", "h", "l"}
    THEN [c EXCEPT !.focusConfirm = ~@]
    ELSE IF msg.key = "y" THEN [c EXCEPT !.confirmed = TRUE, !.responded = TRUE]
    ELSE IF msg.key \in {"n", "esc"}
    THEN [c EXCEPT !.confirmed = FALSE, !.responded = TRUE]
    ELSE IF msg.key = "enter"
    THEN [c EXCEPT !.confirmed = c.focusConfirm, !.responded = TRUE]
    ELSE c

NewSelectMenu(options, default) ==
    [Options |-> options,
     selectedIndex |-> IF default # <<>> THEN IndexOf(options, default) ELSE 0,
     responded |-> FALSE, cancelled |-> FALSE]

SelectUpdate(s, msg) ==
    IF msg.kind # "KeyMsg" THEN s
    ELSE IF msg.key \in {"up", "k"}
    THEN [s EXCEPT !.selectedIndex = IF @ > 0 THEN @ - 1 ELSE @]
    ELSE IF msg.key \in {"down", "j"}
    THEN [s EXCEPT !.selectedIndex = IF @ < Len(s.Options) - 1 THEN @ + 1 ELSE @]
    ELSE IF msg.key = "enter" THEN [s EXCEPT !.responded = TRUE]
    ELSE IF msg.key = "esc" THEN [s EXCEPT !.cancelled = TRUE, !.responded = TRUE]
    ELSE s

GetSelected(s) ==
    IF s.cancelled \/ Len(s.Options) = 0 THEN <<>> ELSE s.Options[s.selectedIndex + 1]

---------------------------------------------------------------------------
(* app/app.go: the states, the model and the messages of the program. *)

StateChat == "StateChat"
StateForm == "StateForm"
StateConfirm == "StateConfirm"
StateSelect == "StateSelect"
StateError == "StateError"

LogEntry(role, content, isCode, language) ==
    [Role |-> role, Content |-> content, IsCode |-> isCode, Language |-> language]

NewModel ==
    [state |-> StateChat, quitting |-> FALSE, input |-> <<>>,
     messages |-> <<>>, streamingText |-> <<>>, isStreaming |-> FALSE,
     currentForm |-> Nil, currentFormID |-> "",
     currentConfirm |-> Nil, currentConfirmID |-> "",
     currentSelect |-> Nil, currentSelectID |-> "",
     currentProgress |-> Nil, lastError |-> Nil,
     statusMessage |-> <<>>, tokenInfo |-> Nil, debugMode |-> FALSE]

KeyMsg(key) == [kind |-> "KeyMsg", key |-> key]
TickMsg == [kind |-> "TickMsg"]
WindowSizeMsg == [kind |-> "WindowSizeMsg"]
protocolMsg(msg, line) == [kind |-> "protocolMsg", msg |-> msg, line |-> line]
protocolErrorMsg(err) == [kind |-> "protocolErrorMsg", err |-> err]
connectionClosedMsg == [kind |-> "connectionClosedMsg"]
clearErrorMsg == [kind |-> "clearErrorMsg"]

(* What one call of Update yields: the new model, the command it returns    *)
(* ("listen" for m.listenForMessages(), "quit" for tea.Quit, "none"), and   *)
(* the envelopes it handed to Handler.SendSync.                            *)
Result(m, cmd, out) == [m |-> m, cmd |-> cmd, out |-> out]

setError(m, message, retryable) ==
    [m EXCEPT !.lastError = Ptr([Message |-> message, Retryable |-> retryable]),
              !.state = StateError]

---------------------------------------------------------------------------
(* protocol handler: the envelopes of the Send* convenience methods. *)

InputMessage(content) ==
    Message(TypeInput, "", Ptr([content |-> JStr(content)]))
FormResponseMessage(id, values) ==
    Message(TypeFormResponse, id, Ptr([values |-> values]))
ConfirmResponseMessage(id, confirmed) ==
    Message(TypeConfirmResponse, id, Ptr([confirmed |-> JBool(confirmed)]))
SelectResponseMessage(id, value) ==
    Message(TypeSelectResponse, id, Ptr([value |-> JStr(value)]))
QuitMessage == Message(TypeQuit, "", Nil)
CancelMessage == Message(TypeCancel, "", Nil)
ResizeMessage == Message(TypeResize, "", Ptr([width |-> JNum(0), height |-> JNum(0)]))

---------------------------------------------------------------------------
(* app/app.go: handleChatKeys. wok: the write of SendSync succeeds. *)

(* Enter sending the input whether or not a turn is in flight. *)
ChatEnterAnyTime(m, wok) ==
    LET content == TrimSpace(m.input)
        logged == [m EXCEPT !.messages = Append(@, LogEntry("user", content, FALSE, <<>>))]
    IN  IF content = <<>> THEN Result(m, "none", <<>>)
        ELSE IF ~wok
        THEN Result(setError(logged, "Failed to send message", TRUE), "none",
                    <<InputMessage(content)>>)
        ELSE Result([logged EXCEPT !.input = <<>>, !.isStreaming = TRUE,
                                   !.statusMessage = <<"Thinking...">>],
                    "none", <<InputMessage(content)>>)

ChatEnter(m, wok) ==
    LET content == TrimSpace(m.input)
        logged == [m EXCEPT !.messages = Append(@, LogEntry("user", content, FALSE, <<>>))]
    IN  IF m.isStreaming THEN Result(m, "none", <<>>)
        ELSE IF content = <<>> THEN Result(m, "none", <<>>)
        ELSE IF ~wok
        THEN Result(setError(logged, "Failed to send message", TRUE), "none",
                    <<InputMessage(content)>>)
        ELSE Result([logged EXCEPT !.input = <<>>, !.isStreaming = TRUE,
                                   !.statusMessage = <<"Thinking...">>],
                    "none", <<InputMessage(content)>>)

(* handleChatKeys sending the cancel and leaving isStreaming set until the  *)
(* peer answers.                                                           *)
handleChatKeysAwaitsPeer(m, key, wok) ==
    IF key = "esc"
    THEN IF m.isStreaming
         THEN Result([m EXCEPT !.statusMessage = <<"Cancelled">>],
                     "none", <<CancelMessage>>)
         ELSE Result(m, "none", <<>>)
    ELSE IF key = "ctrl+l" THEN Result([m EXCEPT !.messages = <<>>], "none", <<>>)
    ELSE IF key = "ctrl+d" THEN Result([m EXCEPT !.debugMode = ~@], "none", <<>>)
    ELSE IF key \in {"pgup", "pgdown"} THEN Result(m, "none", <<>>)
    ELSE IF key = "enter" THEN ChatEnter(m, wok)
    ELSE IF key \in RuneKeys THEN Result([m EXCEPT !.input = Append(@, key)], "none", <<>>)
    ELSE Result(m, "none", <<>>)

handleChatKeys(m, key, wok) ==
    IF key = "esc"
    THEN IF m.isStreaming
         THEN Result([m EXCEPT !.isStreaming = FALSE, !.statusMessage = <<"Cancelled">>],
                     "none", <<CancelMessage>>)
         ELSE Result(m, "none", <<>>)
    ELSE IF key = "ctrl+l" THEN Result([m EXCEPT !.messages = <<>>], "none", <<>>)
    ELSE IF key = "ctrl+d" THEN Result([m EXCEPT !.debugMode = ~@], "none", <<>>)
    ELSE IF key \in {"pgup", "pgdown"} THEN Result(m, "none", <<>>)
    ELSE IF key = "enter" THEN ChatEnter(m, wok)
    ELSE IF key \in RuneKeys THEN Result([m EXCEPT !.input = Append(@, key)], "none", <<>>)
    ELSE Result(m, "none", <<>>)

handleKeyMsg(m, key, wok) ==
    IF m.state = StateChat THEN handleChatKeys(m, key, wok)
    ELSE Result(m, "none", <<>>)

---------------------------------------------------------------------------
(* app/app.go: handleProtocolMsg, one operator per case of its switch. *)

Listen(m) == Result(m, "listen", <<>>)

(* handleText without the reset of the buffer when a chunk is done. *)
handleTextKeepsBuffer(m, msg) ==
    IF ParsePayloadErr(msg, TextSchema)
    THEN Listen(setError(m, "Invalid text payload", FALSE))
    ELSE LET text == m.streamingText \o PayloadField(msg, "content", "string", <<>>)
         IN  IF PayloadField(msg, "done", "bool", FALSE)
             THEN Listen([m EXCEPT !.messages =
                                       Append(@, LogEntry("assistant", text, FALSE, <<>>)),
                                   !.streamingText = text,
                                   !.isStreaming = FALSE])
             ELSE Listen([m EXCEPT !.streamingText = text])

handleText(m, msg) ==
    IF ParsePayloadErr(msg, TextSchema)
    THEN Listen(setError(m, "Invalid text payload", FALSE))
    ELSE LET text == m.streamingText \o PayloadField(msg, "content", "string", <<>>)
         IN  IF PayloadField(msg, "done", "bool", FALSE)
             THEN Listen([m EXCEPT !.messages =
                                       Append(@, LogEntry("assistant", text, FALSE, <<>>)),
                                   !.streamingText = <<>>,
                                   !.isStreaming = FALSE])
             ELSE Listen([m EXCEPT !.streamingText = text])

handleMarkdown(m, msg) ==
    IF ParsePayloadErr(msg, MarkdownSchema)
    THEN Listen(setError(m, "Invalid markdown payload", FALSE))
    ELSE Listen([m EXCEPT !.messages =
                     Append(@, LogEntry("assistant",
                                        PayloadField(msg, "content", "string", <<>>),
                                        FALSE, <<>>))])

handleCode(m, msg) ==
    IF ParsePayloadErr(msg, CodeSchema)
    THEN Listen(setError(m, "Invalid code payload", FALSE))
    ELSE Listen([m EXCEPT !.messages =
                     Append(@, LogEntry("assistant",
                                        PayloadField(msg, "code", "string", <<>>),
                                        TRUE,
                                        PayloadField(msg, "language", "string", <<>>)))])

(* The rendered table and alert stand for themselves: rendering is a view's. *)
handleTable(m, msg) ==
    IF ParsePayloadErr(msg, TableSchema)
    THEN Listen(setError(m, "Invalid table payload", FALSE))
    ELSE Listen([m EXCEPT !.messages =
                     Append(@, LogEntry("system",
                                        <<"table">> \o PayloadField(msg, "title", "string", <<>>),
                                        FALSE, <<>>))])

(* handleForm storing the widget and the id before it looks at the error. *)
handleFormEager(m, msg) ==
    LET stored == [m EXCEPT !.currentForm =
                                Ptr(NewForm(PayloadField(msg, "fields", "array", <<>>))),
                            !.currentFormID = msg.ID]
    IN  IF ParsePayloadErr(msg, FormSchema)
        THEN Listen(setError(stored, "Invalid form payload", FALSE))
        ELSE Listen([stored EXCEPT !.state = StateForm])

handleForm(m, msg) ==
    IF ParsePayloadErr(msg, FormSchema)
    THEN Listen(setError(m, "Invalid form payload", FALSE))
    ELSE Listen([m EXCEPT !.currentForm =
                              Ptr(NewForm(PayloadField(msg, "fields", "array", <<>>))),
                          !.currentFormID = msg.ID,
                          !.state = StateForm])

handleConfirm(m, msg) ==
    IF ParsePayloadErr(msg, ConfirmSchema)
    THEN Listen(setError(m, "Invalid confirm payload", FALSE))
    ELSE Listen([m EXCEPT !.currentConfirm = Ptr(NewConfirmDialog),
                          !.currentConfirmID = msg.ID,
                          !.state = StateConfirm])

handleSelect(m, msg) ==
    IF ParsePayloadErr(msg, SelectSchema)
    THEN Listen(setError(m, "Invalid select payload", FALSE))
    ELSE Listen([m EXCEPT !.currentSelect =
                              Ptr(NewSelectMenu(PayloadField(msg, "options", "array", <<>>),
                                                PayloadField(msg, "default", "string", <<>>))),
                          !.currentSelectID = msg.ID,
                          !.state = StateSelect])

handleProgress(m, msg) ==
    IF ParsePayloadErr(msg, ProgressSchema)
    THEN Listen(setError(m, "Invalid progress payload", FALSE))
    ELSE LET message == PayloadField(msg, "message", "string", <<>>)
         IN  Listen([m EXCEPT !.currentProgress = Ptr([Message |-> message]),
                              !.statusMessage = message])

(* handleAlert putting the alert at the head of the log. *)
handleAlertPrepends(m, msg) ==
    IF ParsePayloadErr(msg, AlertSchema)
    THEN Listen(setError(m, "Invalid alert payload", FALSE))
    ELSE Listen([m EXCEPT !.messages =
                     <<LogEntry("system",
                                <<"alert">> \o PayloadField(msg, "message", "string", <<>>),
                                FALSE, <<>>)>> \o @])

handleAlert(m, msg) ==
    IF ParsePayloadErr(msg, AlertSchema)
    THEN Listen(setError(m, "Invalid alert payload", FALSE))
    ELSE Listen([m EXCEPT !.messages =
                     Append(@, LogEntry("system",
                                        <<"alert">> \o PayloadField(msg, "message", "string", <<>>),
                                        FALSE, <<>>))])

(* handleStatus returning without the listen command. *)
handleStatusForgets(m, msg) ==
    IF ParsePayloadErr(msg, StatusSchema)
    THEN Listen(setError(m, "Invalid status payload", FALSE))
    ELSE Result([m EXCEPT !.statusMessage = PayloadField(msg, "message", "string", <<>>)],
                "none", <<>>)

handleStatus(m, msg) ==
    IF ParsePayloadErr(msg, StatusSchema)
    THEN Listen(setError(m, "Invalid status payload", FALSE))
    ELSE Listen([m EXCEPT !.statusMessage = PayloadField(msg, "message", "string", <<>>),
                          !.tokenInfo = IF msg.Payload # Nil
                                           /\ "tokens" \in DOMAIN Deref(msg.Payload)
                                           /\ Deref(msg.Payload)["tokens"].k = "object"
                                        THEN Ptr(Deref(msg.Payload)["tokens"].v)
                                        ELSE Nil])

handleSpinner(m, msg) ==
    IF ParsePayloadErr(msg, SpinnerSchema)
    THEN Listen(setError(m, "Invalid spinner payload", FALSE))
    ELSE Listen([m EXCEPT !.statusMessage = PayloadField(msg, "message", "string", <<>>),
                          !.isStreaming = TRUE])

handleClear(m, msg) ==
    IF ParsePayloadErr(msg, ClearSchema)
    THEN Listen(setError(m, "Invalid clear payload", FALSE))
    ELSE LET scope == PayloadField(msg, "scope", "string", <<>>)
         IN  Listen([m EXCEPT !.messages = IF scope \in {<<"chat">>, <<"all">>}
                                           THEN <<>> ELSE @,
                              !.currentProgress = IF scope \in {<<"progress">>, <<"all">>}
                                                  THEN Nil ELSE @])

(* handleDone emptying the streaming buffer as well. *)
handleDoneResetsBuffer(m, msg) ==
    LET summary == PayloadField(msg, "summary", "string", <<>>)
    IN  Listen([m EXCEPT !.isStreaming = FALSE,
                         !.streamingText = <<>>,
                         !.currentProgress = Nil,
                         !.statusMessage = IF summary # <<>> THEN summary
                                           ELSE <<"Ready">>])

(* handleDone leaving the streaming indicator as it is. *)
handleDoneKeepsIndicator(m, msg) ==
    LET summary == PayloadField(msg, "summary", "string", <<>>)
    IN  Listen([m EXCEPT !.currentProgress = Nil,
                         !.statusMessage = IF summary # <<>> THEN summary
                                           ELSE <<"Ready">>])

(* handleDone dropping the pending request and returning to the chat. *)
handleDoneToChat(m, msg) ==
    LET summary == PayloadField(msg, "summary", "string", <<>>)
    IN  Listen([m EXCEPT !.state = StateChat,
                         !.currentForm = Nil, !.currentConfirm = Nil,
                         !.currentSelect = Nil,
                         !.isStreaming = FALSE,
                         !.currentProgress = Nil,
                         !.statusMessage = IF summary # <<>> THEN summary
                                           ELSE <<"Ready">>])

(* The error of ParsePayload is ignored: a summary that did not decode is    *)
(* the empty string.                                                       *)
handleDone(m, msg) ==
    LET summary == PayloadField(msg, "summary", "string", <<>>)
    IN  Listen([m EXCEPT !.isStreaming = FALSE,
                         !.currentProgress = Nil,
                         !.statusMessage = IF summary # <<>> THEN summary
                                           ELSE <<"Ready">>])

(* handleProtocolMsg rejecting a type it has no case for. *)
handleProtocolMsgStrict(m, msg) ==
    CASE msg.Type = TypeText -> handleText(m, msg)
      [] msg.Type = TypeMarkdown -> handleMarkdown(m, msg)
      [] msg.Type = TypeCode -> handleCode(m, msg)
      [] msg.Type = TypeTable -> handleTable(m, msg)
      [] msg.Type = TypeForm -> handleForm(m, msg)
      [] msg.Type = TypeConfirm -> handleConfirm(m, msg)
      [] msg.Type = TypeSelect -> handleSelect(m, msg)
      [] msg.Type = TypeProgress -> handleProgress(m, msg)
      [] msg.Type = TypeAlert -> handleAlert(m, msg)
      [] msg.Type = TypeStatus -> handleStatus(m, msg)
      [] msg.Type = TypeSpinner -> handleSpinner(m, msg)
      [] msg.Type = TypeClear -> handleClear(m, msg)
      [] msg.Type = TypeDone -> handleDone(m, msg)
      [] OTHER -> Listen(setError(m, "Unknown message type", FALSE))

handleProtocolMsg(m, msg) ==
    CASE msg.Type = TypeText -> handleText(m, msg)
      [] msg.Type = TypeMarkdown -> handleMarkdown(m, msg)
      [] msg.Type = TypeCode -> handleCode(m, msg)
      [] msg.Type = TypeTable -> handleTable(m, msg)
      [] msg.Type = TypeForm -> handleForm(m, msg)
      [] msg.Type = TypeConfirm -> handleConfirm(m, msg)
      [] msg.Type = TypeSelect -> handleSelect(m, msg)
      [] msg.Type = TypeProgress -> handleProgress(m, msg)
      [] msg.Type = TypeAlert -> handleAlert(m, msg)
      [] msg.Type = TypeStatus -> handleStatus(m, msg)
      [] msg.Type = TypeSpinner -> handleSpinner(m, msg)
      [] msg.Type = TypeClear -> handleClear(m, msg)
      [] msg.Type = TypeDone -> handleDone(m, msg)
      [] OTHER -> Listen(m)

---------------------------------------------------------------------------
(* app/app.go: Update. *)

(* A failed send sets the error state, and the lines after it set the state *)
(* back to StateChat and drop the widget.                                  *)
Responded(m, message, wok, out) ==
    Result([(IF wok THEN m ELSE setError(m, message, FALSE)) EXCEPT !.state = StateChat],
           "none", <<out>>)

UpdateForm(m, msg, wok) ==
    IF m.currentForm = Nil THEN Result(m, "none", <<>>)
    ELSE LET f == FormUpdate(Deref(m.currentForm), msg)
             r(values) == Responded([m EXCEPT !.currentForm = Nil],
                                    "Failed to send form", wok,
                                    FormResponseMessage(m.currentFormID, values))
         IN  IF f.submitted THEN r(Ptr(GetValues(f)))
             ELSE IF f.cancelled THEN r(Nil)
             ELSE Result([m EXCEPT !.currentForm = Ptr(f)], "none", <<>>)

UpdateConfirm(m, msg, wok) ==
    IF m.currentConfirm = Nil THEN Result(m, "none", <<>>)
    ELSE LET c == ConfirmUpdate(Deref(m.currentConfirm), msg)
         IN  IF c.responded
             THEN Responded([m EXCEPT !.currentConfirm = Nil],
                            "Failed to send confirmation", wok,
                            ConfirmResponseMessage(m.currentConfirmID, c.confirmed))
             ELSE Result([m EXCEPT !.currentConfirm = Ptr(c)], "none", <<>>)

UpdateSelect(m, msg, wok) ==
    IF m.currentSelect = Nil THEN Result(m, "none", <<>>)
    ELSE LET s == SelectUpdate(Deref(m.currentSelect), msg)
         IN  IF s.responded
             THEN Responded([m EXCEPT !.currentSelect = Nil],
                            "Failed to send selection", wok,
                            SelectResponseMessage(m.currentSelectID, GetSelected(s)))
             ELSE Result([m EXCEPT !.currentSelect = Ptr(s)], "none", <<>>)

(* The textarea's own Update: a rune is appended to its value. *)
UpdateInput(m, msg) ==
    IF msg.kind = "KeyMsg" /\ msg.key \in RuneKeys
    THEN Result([m EXCEPT !.input = Append(@, msg.key)], "none", <<>>)
    ELSE Result(m, "none", <<>>)

(* The second switch of Update, reached by the messages its first switch    *)
(* does not return from.                                                   *)
UpdateComponents(m, msg, wok) ==
    CASE m.state = StateChat -> UpdateInput(m, msg)
      [] m.state = StateForm -> UpdateForm(m, msg, wok)
      [] m.state = StateConfirm -> UpdateConfirm(m, msg, wok)
      [] m.state = StateSelect -> UpdateSelect(m, msg, wok)
      [] OTHER -> Result(m, "none", <<>>)

(* The KeyMsg case with the error cleared before the quit key is looked at. *)
UpdateKeyClearsFirst(m, msg, wok) ==
    LET cleared == IF m.state = StateError /\ msg.key # ""
                   THEN [m EXCEPT !.state = StateChat, !.lastError = Nil]
                   ELSE m
    IN  IF msg.key = "ctrl+c"
        THEN Result([cleared EXCEPT !.quitting = TRUE], "quit", <<QuitMessage>>)
        ELSE handleKeyMsg(cleared, msg.key, wok)

UpdateKey(m, msg, wok) ==
    IF msg.key = "ctrl+c"
    THEN Result([m EXCEPT !.quitting = TRUE], "quit", <<QuitMessage>>)
    ELSE handleKeyMsg(IF m.state = StateError /\ msg.key # ""
                      THEN [m EXCEPT !.state = StateChat, !.lastError = Nil]
                      ELSE m,
                      msg.key, wok)

(* The case of connectionClosedMsg with a listen command armed again. *)
UpdateConnectionClosedListens(m) ==
    Listen(setError(m, "Connection closed", FALSE))

(* case connectionClosedMsg: the error is set and no command is returned. *)
UpdateConnectionClosed(m) ==
    Result(setError(m, "Connection closed", FALSE), "none", <<>>)

UpdateWindowSize(m, wok) ==
    Result(IF wok THEN m ELSE setError(m, "Failed to send resize", FALSE),
           "none", <<ResizeMessage>>)

Update(m, msg, wok) ==
    CASE msg.kind = "KeyMsg" -> UpdateKey(m, msg, wok)
      [] msg.kind = "WindowSizeMsg" -> UpdateWindowSize(m, wok)
      [] msg.kind = "protocolMsg" -> handleProtocolMsg(m, msg.msg)
      [] msg.kind = "protocolErrorMsg" -> Listen(setError(m, "Protocol error", TRUE))
      [] msg.kind = "connectionClosedMsg" -> UpdateConnectionClosed(m)
      [] msg.kind = "clearErrorMsg" ->
             Result(IF m.state = StateError
                    THEN [m EXCEPT !.state = StateChat, !.lastError = Nil] ELSE m,
                    "none", <<>>)
      [] OTHER -> UpdateComponents(m, msg, wok)

---------------------------------------------------------------------------
(* protocol handler: readLoop. A line of the peer is blank, or fails to     *)
(* decode as an envelope, or is an envelope.                               *)

Blank == [kind |-> "blank"]
Garbage == [kind |-> "garbage"]
Envelope(msg) == [kind |-> "envelope", msg |-> msg]

DecodeError(line) == [kind |-> "decode", line |-> line]
ReadError(line) == [kind |-> "read", line |-> line]

ReadLoopAt(pc, held) == [pc |-> pc, held |-> held]

(* The goroutines Start launches: one readLoop and one writeLoop per call.  *)
Pumps == 1..MaxPumps

(* defer close(h.incoming); return. Closing a closed channel panics. *)
ReadLoopReturn(p) ==
    /\ rl' = [rl EXCEPT ![p] = ReadLoopAt("exited", Nil)]
    /\ IF incomingClosed
       THEN panicked' = TRUE /\ UNCHANGED incomingClosed
       ELSE incomingClosed' = TRUE /\ UNCHANGED panicked

ReadLoopGoto(p, pc, held) ==
    /\ rl' = [rl EXCEPT ![p] = ReadLoopAt(pc, held)]
    /\ UNCHANGED <<incomingClosed, panicked>>

(* The top of the loop: the non-blocking check of h.done. *)
ReadLoopTop(p) ==
    /\ ~panicked
    /\ rl[p].pc = "top"
    /\ IF done THEN ReadLoopReturn(p) ELSE ReadLoopGoto(p, "read", Nil)
    /\ UNCHANGED <<model, running, inbox, listeners, incoming, errors, done,
                   written, nlines, nkeys, produced, delivered, errFrom>>
    /\ UNCHANGED wvars

(* What the loop does with a line ReadBytes returned without an error. *)
ReadLoopLine(line, n) ==
    IF line.kind = "blank" THEN ReadLoopAt("top", Nil)
    ELSE IF line.kind = "garbage" THEN ReadLoopAt("sendErr", Ptr(DecodeError(n)))
    ELSE ReadLoopAt("sendMsg", Ptr([msg |-> line.msg, line |-> n]))

ProducedBy(line, n) ==
    IF line.kind = "blank" THEN <<>>
    ELSE IF line.kind = "garbage" THEN <<protocolErrorMsg(DecodeError(n))>>
    ELSE <<protocolMsg(line.msg, n)>>

(* ReadBytes returns the peer's next line, one of Lines; the peer writes at *)
(* most max lines.                                                         *)
ReadLoopRead(p, Lines, max) ==
    /\ ~panicked
    /\ rl[p].pc = "read"
    /\ nlines < max
    /\ \E line \in Lines :
           /\ rl' = [rl EXCEPT ![p] = ReadLoopLine(line, nlines + 1)]
           /\ produced' = produced \o ProducedBy(line, nlines + 1)
    /\ nlines' = nlines + 1
    /\ UNCHANGED <<model, running, inbox, listeners, incoming, incomingClosed,
                   errors, done, written, nkeys, delivered, errFrom>>
    /\ UNCHANGED hvars

(* ReadBytes returns io.EOF: the peer closed the stream. *)
ReadLoopEOF(p) ==
    /\ ~panicked
    /\ rl[p].pc = "read"
    /\ ReadLoopReturn(p)
    /\ UNCHANGED <<model, running, inbox, listeners, incoming, errors, done,
                   written, nlines, nkeys, produced, delivered, errFrom>>
    /\ UNCHANGED wvars

(* readLoop decoding the data that ReadBytes returned together with io.EOF. *)
ReadLoopEOFPartialDecodes(p, Lines) ==
    /\ ~panicked
    /\ rl[p].pc = "read"
    /\ nlines < MaxLines
    /\ \E line \in Lines :
           /\ rl' = [rl EXCEPT ![p] = ReadLoopLine(line, nlines + 1)]
           /\ produced' = produced \o ProducedBy(line, nlines + 1)
    /\ nlines' = nlines + 1
    /\ UNCHANGED <<model, running, inbox, listeners, incoming, incomingClosed,
                   errors, done, written, nkeys, delivered, errFrom>>
    /\ UNCHANGED hvars

(* ReadBytes returns io.EOF together with the bytes of a last line, one of   *)
(* Lines, that has no newline: err is not nil, so the loop returns without  *)
(* looking at the bytes. The pump is left holding the line it dropped.      *)
ReadLoopEOFPartial(p, Lines) ==
    /\ ~panicked
    /\ rl[p].pc = "read"
    /\ nlines < MaxLines
    /\ \E line \in Lines :
           rl' = [rl EXCEPT ![p] = ReadLoopAt("exited",
                                              Ptr([dropped |-> line, line |-> nlines + 1]))]
    /\ IF incomingClosed
       THEN panicked' = TRUE /\ UNCHANGED incomingClosed
       ELSE incomingClosed' = TRUE /\ UNCHANGED panicked
    /\ nlines' = nlines + 1
    /\ UNCHANGED <<model, running, inbox, listeners, incoming, errors, done,
                   written, nkeys, produced, delivered, errFrom>>
    /\ UNCHANGED wvars

(* ReadBytes returns another error: it is reported, and the loop returns. *)
ReadLoopReadFail(p) ==
    /\ ~panicked
    /\ rl[p].pc = "read"
    /\ rl' = [rl EXCEPT ![p] = ReadLoopAt("sendErrFatal", Ptr(ReadError(nlines + 1)))]
    /\ produced' = Append(produced, protocolErrorMsg(ReadError(nlines + 1)))
    /\ UNCHANGED <<model, running, inbox, listeners, incoming, incomingClosed,
                   errors, done, written, nlines, nkeys, delivered, errFrom>>
    /\ UNCHANGED hvars

(* select: case h.errors <- err *)
(* readLoop returning after it reported any error, a decode error included. *)
ReadLoopSendErrReturns(p) ==
    /\ ~panicked
    /\ rl[p].pc \in {"sendErr", "sendErrFatal"}
    /\ Len(errors) < ErrorsCap
    /\ errors' = Append(errors, Deref(rl[p].held))
    /\ ReadLoopReturn(p)
    /\ UNCHANGED <<model, running, inbox, listeners, incoming, done, written,
                   nlines, nkeys, produced, delivered, errFrom>>
    /\ UNCHANGED wvars

ReadLoopSendErr(p) ==
    /\ ~panicked
    /\ rl[p].pc \in {"sendErr", "sendErrFatal"}
    /\ Len(errors) < ErrorsCap
    /\ errors' = Append(errors, Deref(rl[p].held))
    /\ IF rl[p].pc = "sendErr" THEN ReadLoopGoto(p, "top", Nil) ELSE ReadLoopReturn(p)
    /\ UNCHANGED <<model, running, inbox, listeners, incoming, done, written,
                   nlines, nkeys, produced, delivered, errFrom>>
    /\ UNCHANGED wvars

(* readLoop with a send that does not wait: a message that finds the queue  *)
(* full is dropped.                                                        *)
ReadLoopSendMsgDrops(p) ==
    /\ ~panicked
    /\ rl[p].pc = "sendMsg"
    /\ IF incomingClosed
       THEN panicked' = TRUE /\ UNCHANGED <<incoming, rl>>
       ELSE /\ incoming' = IF Len(incoming) < IncomingCap
                           THEN Append(incoming, Deref(rl[p].held)) ELSE incoming
            /\ rl' = [rl EXCEPT ![p] = ReadLoopAt("top", Nil)]
            /\ UNCHANGED panicked
    /\ UNCHANGED <<model, running, inbox, listeners, incomingClosed, errors, done,
                   written, nlines, nkeys, produced, delivered, errFrom>>
    /\ UNCHANGED wvars

(* select: case h.incoming <- &msg. A send on a closed channel panics. *)
ReadLoopSendMsg(p) ==
    /\ ~panicked
    /\ rl[p].pc = "sendMsg"
    /\ IF incomingClosed
       THEN panicked' = TRUE /\ UNCHANGED <<incoming, rl>>
       ELSE /\ Len(incoming) < IncomingCap
            /\ incoming' = Append(incoming, Deref(rl[p].held))
            /\ rl' = [rl EXCEPT ![p] = ReadLoopAt("top", Nil)]
            /\ UNCHANGED panicked
    /\ UNCHANGED <<model, running, inbox, listeners, incomingClosed, errors, done,
                   written, nlines, nkeys, produced, delivered, errFrom>>
    /\ UNCHANGED wvars

(* select: case <-h.done, in either select that sends. After a decode error *)
(* the loop continues; after a read error or with a message it returns.    *)
ReadLoopDone(p) ==
    /\ ~panicked
    /\ rl[p].pc \in {"sendErr", "sendErrFatal", "sendMsg"}
    /\ done
    /\ IF rl[p].pc = "sendErr" THEN ReadLoopGoto(p, "top", Nil) ELSE ReadLoopReturn(p)
    /\ UNCHANGED <<model, running, inbox, listeners, incoming, errors, done,
                   written, nlines, nkeys, produced, delivered, errFrom>>
    /\ UNCHANGED wvars

(* Handler.Stop, which main defers until the program has run. *)
Stop ==
    /\ ~running
    /\ ~done
    /\ done' = TRUE
    /\ UNCHANGED <<model, running, inbox, listeners, incoming, incomingClosed,
                   errors, rl, written, nlines, nkeys, produced, delivered, errFrom>>
    /\ UNCHANGED hvars

---------------------------------------------------------------------------
(* protocol handler: writeLoop, Send and SendSync. An item of the outgoing  *)
(* queue is the message with the method that was called, the number of    *)
(* the call, whether Stop had been called when the call began, and whether *)
(* the read pump had closed incoming by then.                              *)

WriteLoopAt(pc, held) == [pc |-> pc, held |-> held]
CallAt(pc, held) == [pc |-> pc, held |-> held]
Callers == 1..MaxCallers

Outbound(via, n, late) ==
    [msg |-> Message(TypeInput, "", Nil), via |-> via, n |-> n, late |-> late,
     ended |-> incomingClosed]
WriteError(n) == [kind |-> "write", line |-> n]

(* writeLoop returning when the inbound stream has ended, too. *)
WriteLoopDoneOnClose(p) ==
    /\ ~panicked
    /\ wl[p].pc = "select"
    /\ done \/ incomingClosed
    /\ wl' = [wl EXCEPT ![p] = WriteLoopAt("exited", Nil)]
    /\ UNCHANGED <<outgoing, writeMu, calls, ncalls, panicked, written, errors, done,
                   incoming, incomingClosed, rl, nlines, produced, delivered>>
    /\ UNCHANGED svars

(* select: case <-h.done: return *)
WriteLoopDone(p) ==
    /\ ~panicked
    /\ wl[p].pc = "select"
    /\ done
    /\ wl' = [wl EXCEPT ![p] = WriteLoopAt("exited", Nil)]
    /\ UNCHANGED <<outgoing, writeMu, calls, ncalls, panicked, written, errors, done,
                   incoming, incomingClosed, rl, nlines, produced, delivered>>
    /\ UNCHANGED svars

(* select: case msg := <-h.outgoing, and the call of SendSync. *)
WriteLoopTake(p) ==
    /\ ~panicked
    /\ wl[p].pc = "select"
    /\ outgoing # <<>>
    /\ wl' = [wl EXCEPT ![p] = WriteLoopAt("lock", Ptr(Head(outgoing)))]
    /\ outgoing' = Tail(outgoing)
    /\ UNCHANGED <<writeMu, calls, ncalls, panicked, written, errors, done,
                   incoming, incomingClosed, rl, nlines, produced, delivered>>
    /\ UNCHANGED svars

(* SendSync in writeLoop: h.writeMu.Lock() *)
WriteLoopLock(p) ==
    /\ ~panicked
    /\ wl[p].pc = "lock"
    /\ writeMu = Nil
    /\ writeMu' = Ptr(<<"writeLoop", p>>)
    /\ wl' = [wl EXCEPT ![p].pc = "write"]
    /\ UNCHANGED <<outgoing, calls, ncalls, panicked, written, errors, done,
                   incoming, incomingClosed, rl, nlines, produced, delivered>>
    /\ UNCHANGED svars

(* SendSync in writeLoop: h.writer.Write(data) succeeds or fails, and the    *)
(* deferred Unlock; on an error the loop goes to report it.                 *)
WriteLoopWrite(p, wok) ==
    /\ ~panicked
    /\ wl[p].pc = "write"
    /\ written' = IF wok THEN Append(written, Deref(wl[p].held)) ELSE written
    /\ writeMu' = Nil
    /\ wl' = [wl EXCEPT ![p] = IF wok THEN WriteLoopAt("select", Nil)
                               ELSE WriteLoopAt("sendErr",
                                                Ptr(WriteError(Deref(wl[p].held).n)))]
    /\ UNCHANGED <<outgoing, calls, ncalls, panicked, errors, done,
                   incoming, incomingClosed, rl, nlines, produced, delivered>>
    /\ UNCHANGED svars

(* select: case h.errors <- err *)
WriteLoopSendErr(p) ==
    /\ ~panicked
    /\ wl[p].pc = "sendErr"
    /\ Len(errors) < ErrorsCap
    /\ errors' = Append(errors, Deref(wl[p].held))
    /\ wl' = [wl EXCEPT ![p] = WriteLoopAt("select", Nil)]
    /\ UNCHANGED <<outgoing, writeMu, calls, ncalls, panicked, written, done,
                   incoming, incomingClosed, rl, nlines, produced, delivered>>
    /\ UNCHANGED svars

(* select: case <-h.done, in the select that reports the error. *)
WriteLoopSendErrDone(p) ==
    /\ ~panicked
    /\ wl[p].pc = "sendErr"
    /\ done
    /\ wl' = [wl EXCEPT ![p] = WriteLoopAt("select", Nil)]
    /\ UNCHANGED <<outgoing, writeMu, calls, ncalls, panicked, written, errors, done,
                   incoming, incomingClosed, rl, nlines, produced, delivered>>
    /\ UNCHANGED svars

(* A goroutine calls Send(msg). *)
SendCall(c) ==
    /\ ~panicked
    /\ calls[c].pc = "idle"
    /\ ncalls < MaxCalls
    /\ calls' = [calls EXCEPT ![c] = CallAt("send", Ptr(Outbound("Send", ncalls + 1, done)))]
    /\ ncalls' = ncalls + 1
    /\ UNCHANGED <<wl, outgoing, writeMu, panicked, written, errors, done,
                   incoming, incomingClosed, rl, nlines, produced, delivered>>
    /\ UNCHANGED svars

(* Send: select case h.outgoing <- msg *)
SendEnqueue(c) ==
    /\ ~panicked
    /\ calls[c].pc = "send"
    /\ Len(outgoing) < OutgoingCap
    /\ outgoing' = Append(outgoing, Deref(calls[c].held))
    /\ calls' = [calls EXCEPT ![c] = CallAt("idle", Nil)]
    /\ UNCHANGED <<wl, writeMu, ncalls, panicked, written, errors, done,
                   incoming, incomingClosed, rl, nlines, produced, delivered>>
    /\ UNCHANGED svars

(* Send: select case <-h.done *)
SendDiscard(c) ==
    /\ ~panicked
    /\ calls[c].pc = "send"
    /\ done
    /\ calls' = [calls EXCEPT ![c] = CallAt("idle", Nil)]
    /\ UNCHANGED <<wl, outgoing, writeMu, ncalls, panicked, written, errors, done,
                   incoming, incomingClosed, rl, nlines, produced, delivered>>
    /\ UNCHANGED svars

(* A goroutine calls SendSync(msg). *)
SendSyncCall(c) ==
    /\ ~panicked
    /\ calls[c].pc = "idle"
    /\ ncalls < MaxCalls
    /\ calls' = [calls EXCEPT ![c] = CallAt("lock", Ptr(Outbound("SendSync", ncalls + 1, done)))]
    /\ ncalls' = ncalls + 1
    /\ UNCHANGED <<wl, outgoing, writeMu, panicked, written, errors, done,
                   incoming, incomingClosed, rl, nlines, produced, delivered>>
    /\ UNCHANGED svars

(* SendSync entering the write section without waiting for writeMu. *)
SendSyncLockFree(c) ==
    /\ ~panicked
    /\ calls[c].pc = "lock"
    /\ writeMu' = Ptr(<<"SendSync", c>>)
    /\ calls' = [calls EXCEPT ![c].pc = "write"]
    /\ UNCHANGED <<wl, outgoing, ncalls, panicked, written, errors, done,
                   incoming, incomingClosed, rl, nlines, produced, delivered>>
    /\ UNCHANGED svars

(* SendSync: h.writeMu.Lock() *)
SendSyncLock(c) ==
    /\ ~panicked
    /\ calls[c].pc = "lock"
    /\ writeMu = Nil
    /\ writeMu' = Ptr(<<"SendSync", c>>)
    /\ calls' = [calls EXCEPT ![c].pc = "write"]
    /\ UNCHANGED <<wl, outgoing, ncalls, panicked, written, errors, done,
                   incoming, incomingClosed, rl, nlines, produced, delivered>>
    /\ UNCHANGED svars

(* SendSync: h.writer.Write(data) succeeds or fails, the deferred Unlock,   *)
(* and the return.                                                         *)
SendSyncWrite(c, wok) ==
    /\ ~panicked
    /\ calls[c].pc = "write"
    /\ written' = IF wok THEN Append(written, Deref(calls[c].held)) ELSE written
    /\ writeMu' = Nil
    /\ calls' = [calls EXCEPT ![c] = CallAt("idle", Nil)]
    /\ UNCHANGED <<wl, outgoing, ncalls, panicked, errors, done,
                   incoming, incomingClosed, rl, nlines, produced, delivered>>
    /\ UNCHANGED svars

(* A goroutine calls Stop(), once. *)
StopCall ==
    /\ ~panicked
    /\ ~done
    /\ done' = TRUE
    /\ UNCHANGED <<wl, outgoing, writeMu, calls, ncalls, panicked, written, errors,
                   incoming, incomingClosed, rl, nlines, produced, delivered>>
    /\ UNCHANGED svars

(* A goroutine calls Start() again: go h.readLoop(); go h.writeLoop(). *)
StartCall ==
    /\ ~panicked
    /\ \E p \in Pumps :
           /\ rl[p].pc = "unstarted"
           /\ \A q \in 1..(p - 1) : rl[q].pc # "unstarted"
           /\ rl' = [rl EXCEPT ![p] = ReadLoopAt("top", Nil)]
           /\ wl' = [wl EXCEPT ![p] = WriteLoopAt("select", Nil)]
    /\ UNCHANGED <<outgoing, writeMu, calls, ncalls, panicked, written, errors, done,
                   incoming, incomingClosed, nlines, produced, delivered>>
    /\ UNCHANGED svars

(* A consumer receives from Incoming(). *)
IncomingReceive ==
    /\ ~panicked
    /\ incoming # <<>>
    /\ delivered' = Append(delivered,
                           protocolMsg(Head(incoming).msg, Head(incoming).line))
    /\ incoming' = Tail(incoming)
    /\ UNCHANGED <<wl, outgoing, writeMu, calls, ncalls, panicked, written, errors,
                   done, incomingClosed, rl, nlines, produced>>
    /\ UNCHANGED svars

(* A consumer receives from Errors(). *)
ErrorsReceive ==
    /\ ~panicked
    /\ errors # <<>>
    /\ delivered' = Append(delivered, protocolErrorMsg(Head(errors)))
    /\ errors' = Tail(errors)
    /\ UNCHANGED <<wl, outgoing, writeMu, calls, ncalls, panicked, written,
                   incoming, done, incomingClosed, rl, nlines, produced>>
    /\ UNCHANGED svars

---------------------------------------------------------------------------
(* app/app.go: listenForMessages, the command. Its select takes whichever   *)
(* case is ready; its result travels to Update through the program.        *)

Listened(msg) ==
    /\ inbox' = Append(inbox, msg)
    /\ listeners' = listeners - 1

(* listenForMessages taking the newest message of the queue, not the oldest. *)
ListenIncomingNewest ==
    /\ running /\ listeners > 0
    /\ incoming # <<>>
    /\ Listened(protocolMsg(incoming[Len(incoming)].msg, incoming[Len(incoming)].line))
    /\ incoming' = SubSeq(incoming, 1, Len(incoming) - 1)
    /\ UNCHANGED <<model, running, incomingClosed, errors, done, rl, written,
                   nlines, nkeys, produced, delivered, errFrom>>
    /\ UNCHANGED hvars

ListenIncoming ==
    /\ running /\ listeners > 0
    /\ incoming # <<>>
    /\ Listened(protocolMsg(Head(incoming).msg, Head(incoming).line))
    /\ incoming' = Tail(incoming)
    /\ UNCHANGED <<model, running, incomingClosed, errors, done, rl, written,
                   nlines, nkeys, produced, delivered, errFrom>>
    /\ UNCHANGED hvars

ListenClosed ==
    /\ running /\ listeners > 0
    /\ incoming = <<>> /\ incomingClosed
    /\ Listened(connectionClosedMsg)
    /\ UNCHANGED <<model, running, incoming, incomingClosed, errors, done, rl,
                   written, nlines, nkeys, produced, delivered, errFrom>>
    /\ UNCHANGED hvars

(* listenForMessages taking the newest error of the queue, not the oldest. *)
ListenErrorsNewest ==
    /\ running /\ listeners > 0
    /\ errors # <<>>
    /\ Listened(protocolErrorMsg(errors[Len(errors)]))
    /\ errors' = SubSeq(errors, 1, Len(errors) - 1)
    /\ UNCHANGED <<model, running, incoming, incomingClosed, done, rl, written,
                   nlines, nkeys, produced, delivered, errFrom>>
    /\ UNCHANGED hvars

ListenErrors ==
    /\ running /\ listeners > 0
    /\ errors # <<>>
    /\ Listened(protocolErrorMsg(Head(errors)))
    /\ errors' = Tail(errors)
    /\ UNCHANGED <<model, running, incoming, incomingClosed, done, rl, written,
                   nlines, nkeys, produced, delivered, errFrom>>
    /\ UNCHANGED hvars

---------------------------------------------------------------------------
(* The Bubbletea program: it calls Update with one message at a time, runs  *)
(* the command Update returns, and stops at tea.Quit.                      *)

FromTransport(msg) ==
    msg.kind \in {"protocolMsg", "protocolErrorMsg", "connectionClosedMsg"}

Step(msg, wok) ==
    LET r == Update(model, msg, wok)
    IN  /\ model' = r.m
        /\ written' = IF wok THEN written \o r.out ELSE written
        /\ listeners' = IF r.cmd = "listen" THEN listeners + 1 ELSE listeners
        /\ running' = (r.cmd # "quit")
        /\ delivered' = IF FromTransport(msg) THEN Append(delivered, msg) ELSE delivered
        /\ errFrom' = IF model.state # StateError /\ r.m.state = StateError
                      THEN model.state ELSE errFrom

(* The program hands the result of a listen command to Update. *)
Deliver ==
    /\ running
    /\ inbox # <<>>
    /\ Step(Head(inbox), TRUE)
    /\ inbox' = Tail(inbox)
    /\ UNCHANGED <<incoming, incomingClosed, errors, done, rl, nlines, nkeys, produced>>
    /\ UNCHANGED hvars

(* The user presses key; the write of a message it sends succeeds or not. *)
Key(key, wok) ==
    /\ running
    /\ nkeys < MaxKeys
    /\ Step(KeyMsg(key), wok)
    /\ nkeys' = nkeys + 1
    /\ UNCHANGED <<inbox, incoming, incomingClosed, errors, done, rl, nlines, produced>>
    /\ UNCHANGED hvars

KeyPress(Keys, Writes) == \E key \in Keys, wok \in Writes : Key(key, wok)

(* The spinner ticks. *)
Tick ==
    /\ running
    /\ \E wok \in BOOLEAN : Step(TickMsg, wok)
    /\ UNCHANGED <<inbox, incoming, incomingClosed, errors, done, rl, nlines, nkeys,
                   produced>>
    /\ UNCHANGED hvars

Init ==
    /\ model = NewModel
    /\ running = TRUE
    /\ inbox = <<>>
    /\ listeners = 1
    /\ incoming = <<>>
    /\ incomingClosed = FALSE
    /\ errors = <<>>
    /\ done = FALSE
    /\ rl = [p \in Pumps |-> ReadLoopAt(IF p = 1 THEN "top" ELSE "unstarted", Nil)]
    /\ wl = [p \in Pumps |-> WriteLoopAt(IF p = 1 THEN "select" ELSE "unstarted", Nil)]
    /\ outgoing = <<>>
    /\ writeMu = Nil
    /\ calls = [c \in Callers |-> CallAt("idle", Nil)]
    /\ panicked = FALSE
    /\ ncalls = 0
    /\ written = <<>>
    /\ nlines = 0
    /\ nkeys = 0
    /\ produced = <<>>
    /\ delivered = <<>>
    /\ errFrom = StateChat

---------------------------------------------------------------------------
(* The lines a peer writes, and the specifications. *)

TextLine(content, isDone) ==
    Envelope(Message(TypeText, "", Ptr([content |-> JStr(content), done |-> JBool(isDone)])))
StatusLine(message) ==
    Envelope(Message(TypeStatus, "", Ptr([message |-> JStr(message)])))
ClearLine(scope) ==
    Envelope(Message(TypeClear, "", Ptr([scope |-> JStr(scope)])))
FormLine(id, fields) ==
    Envelope(Message(TypeForm, id, Ptr([fields |-> JArr(fields)])))
BadFormLine(id) ==
    Envelope(Message(TypeForm, id, Ptr([fields |-> JStr(<<"not-an-array">>)])))
ConfirmLine(id) ==
    Envelope(Message(TypeConfirm, id, Ptr([message |-> JStr(<<"?">>)])))
SelectLine(id, options) ==
    Envelope(Message(TypeSelect, id, Ptr([label |-> JStr(<<"?">>), options |-> JArr(options)])))

CheckboxField ==
    [Name |-> <<"c">>, Type |-> "checkbox", Options |-> <<>>, Default |-> Nil]

(* A session with blocking requests, malformed input and a user. *)
SessionLines ==
    {FormLine("A", <<>>), FormLine("B", <<CheckboxField>>), ConfirmLine("C"),
     SelectLine("D", <<<<"x">>, <<"y">>>>), BadFormLine("E"), Garbage,
     TextLine(<<"H">>, FALSE)}

SessionKeys == {"enter", "esc", "y", "ctrl+c"}

Next ==
    \/ \E p \in Pumps : ReadLoopTop(p)
    \/ \E p \in Pumps : ReadLoopRead(p, SessionLines, MaxLines)
    \/ \E p \in Pumps : ReadLoopEOF(p)
    \/ \E p \in Pumps : ReadLoopSendErr(p)
    \/ \E p \in Pumps : ReadLoopSendMsg(p)
    \/ \E p \in Pumps : ReadLoopDone(p)
    \/ Stop
    \/ ListenIncoming
    \/ ListenClosed
    \/ ListenErrors
    \/ Deliver
    \/ KeyPress(SessionKeys, {TRUE})
    \/ Tick

Spec == Init /\ [][Next]_vars

---------------------------------------------------------------------------
(* Blocking requests and their resolution (claims C1 to C5). *)

Awaiting == {StateForm, StateConfirm, StateSelect}

(* The widget of the mode the session is in, Nil when there is none. *)
Widget(m) ==
    CASE m.state = StateForm -> m.currentForm
      [] m.state = StateConfirm -> m.currentConfirm
      [] m.state = StateSelect -> m.currentSelect
      [] OTHER -> Nil

StoredID(m) ==
    CASE m.state = StateForm -> m.currentFormID
      [] m.state = StateConfirm -> m.currentConfirmID
      [] m.state = StateSelect -> m.currentSelectID
      [] OTHER -> ""

ResponseType(m) ==
    CASE m.state = StateForm -> TypeFormResponse
      [] m.state = StateConfirm -> TypeConfirmResponse
      [] m.state = StateSelect -> TypeSelectResponse
      [] OTHER -> ""

(* key is a resolution action of the pending widget: the widget's own       *)
(* Update takes it as submit, cancel, yes, no or choose.                   *)
Resolves(m, key) ==
    /\ Widget(m) # Nil
    /\ CASE m.state = StateForm ->
                LET f == FormUpdate(Deref(m.currentForm), KeyMsg(key))
                IN  f.submitted \/ f.cancelled
         [] m.state = StateConfirm ->
                ConfirmUpdate(Deref(m.currentConfirm), KeyMsg(key)).responded
         [] m.state = StateSelect ->
                SelectUpdate(Deref(m.currentSelect), KeyMsg(key)).responded
         [] OTHER -> FALSE

(* C1: in an Awaiting mode, a resolution key of the user makes the step     *)
(* write exactly one response, of the mode's response type and with the    *)
(* stored id, drop the pending request and return to StateChat.            *)
C1_ResolutionResponds ==
    [][\A key \in SessionKeys :
          (model.state \in Awaiting /\ Resolves(model, key) /\ Key(key, TRUE))
          => /\ Len(written') = Len(written) + 1
             /\ written'[Len(written')].Type = ResponseType(model)
             /\ written'[Len(written')].ID = StoredID(model)
             /\ model'.state = StateChat
             /\ model'.currentForm = Nil
             /\ model'.currentConfirm = Nil
             /\ model'.currentSelect = Nil]_vars

Blocking == {TypeForm, TypeConfirm, TypeSelect}

(* UpdatePayload.UnmarshalJSON decodes into a map: only a payload that is   *)
(* not an object fails, an id of another kind is left empty.               *)
UpdateSchema == [f \in {} |-> ""]

PeerTypes ==
    {TypeText, TypeMarkdown, TypeProgress, TypeForm, TypeTable, TypeCode, TypeConfirm,
     TypeSelect, TypeAlert, TypeSpinner, TypeStatus, TypeClear, TypeDone, TypeUpdate}

(* The payload struct of each type the peer sends. *)
SchemaFor(type) ==
    CASE type = TypeText -> TextSchema
      [] type = TypeMarkdown -> MarkdownSchema
      [] type = TypeProgress -> ProgressSchema
      [] type = TypeForm -> FormSchema
      [] type = TypeTable -> TableSchema
      [] type = TypeCode -> CodeSchema
      [] type = TypeConfirm -> ConfirmSchema
      [] type = TypeSelect -> SelectSchema
      [] type = TypeAlert -> AlertSchema
      [] type = TypeSpinner -> SpinnerSchema
      [] type = TypeStatus -> StatusSchema
      [] type = TypeClear -> ClearSchema
      [] type = TypeDone -> DoneSchema
      [] type = TypeUpdate -> UpdateSchema

SchemaOf(type) ==
    CASE type = TypeForm -> FormSchema
      [] type = TypeConfirm -> ConfirmSchema
      [] type = TypeSelect -> SelectSchema

(* The program is handing a well-formed blocking request to Update. *)
RequestArrives ==
    /\ inbox # <<>>
    /\ Head(inbox).kind = "protocolMsg"
    /\ Head(inbox).msg.Type \in Blocking
    /\ ~ParsePayloadErr(Head(inbox).msg, SchemaOf(Head(inbox).msg.Type))
    /\ Deliver

(* C3: when a blocking request B arrives while a request A is pending,      *)
(* either a response carrying B's id is written in that step, or A stays   *)
(* the active request with its id and widget as they were.                 *)
C3_BusyPolicy ==
    [][(model.state \in Awaiting /\ Widget(model) # Nil /\ RequestArrives)
       => \/ /\ Len(written') = Len(written) + 1
             /\ written'[Len(written')].ID = Head(inbox).msg.ID
          \/ /\ model'.state = model.state
             /\ Widget(model') = Widget(model)
             /\ StoredID(model') = StoredID(model)]_vars

PendingKinds(m) ==
    {t \in Blocking :
        CASE t = TypeForm -> m.currentForm # Nil
          [] t = TypeConfirm -> m.currentConfirm # Nil
          [] t = TypeSelect -> m.currentSelect # Nil}

(* C4: at most one pending request exists; an Awaiting mode has the pending *)
(* request of its kind; a pending request exists only in its Awaiting mode  *)
(* (or behind StateError); StateChat has no pending request.               *)
C4_ModeMatchesPending ==
    /\ Cardinality(PendingKinds(model)) <= 1
    /\ model.state = StateForm <=> (model.currentForm # Nil /\ model.state # StateError)
    /\ model.state = StateConfirm <=> (model.currentConfirm # Nil /\ model.state # StateError)
    /\ model.state = StateSelect <=> (model.currentSelect # Nil /\ model.state # StateError)
    /\ model.state = StateChat => PendingKinds(model) = {}

(* C5: the key that dismisses StateError, entered on a decode or payload    *)
(* error from an Awaiting mode whose request is still pending, returns the *)
(* session to that mode with the request's id and widget as they were.     *)
C5_DismissReturnsToAwaiting ==
    [][\A key \in SessionKeys \ {"ctrl+c"} :
          (/\ model.state = StateError
           /\ Deref(model.lastError).Message # "Connection closed"
           /\ errFrom \in Awaiting
           /\ Widget([model EXCEPT !.state = errFrom]) # Nil
           /\ Key(key, TRUE))
          => /\ model'.state = errFrom
             /\ Widget(model') = Widget([model EXCEPT !.state = errFrom])
             /\ StoredID(model') = StoredID([model EXCEPT !.state = errFrom])]_vars

---------------------------------------------------------------------------
(* A malformed form payload (claim C6). *)

MalformedLines ==
    {FormLine("A", <<CheckboxField>>), ConfirmLine("C"),
     SelectLine("D", <<<<"x">>, <<"y">>>>), BadFormLine("E"),
     TextLine(<<"H">>, FALSE), TextLine(<<"i">>, TRUE)}

NextMalformed ==
    \/ \E p \in Pumps : ReadLoopTop(p)
    \/ \E p \in Pumps : ReadLoopRead(p, MalformedLines, MaxLines + 1)
    \/ \E p \in Pumps : ReadLoopSendMsg(p)
    \/ ListenIncoming
    \/ Deliver

SpecMalformed == Init /\ [][NextMalformed]_vars

(* The program is handing Update a form message whose payload does not decode. *)
BadFormArrives ==
    /\ inbox # <<>>
    /\ Head(inbox).kind = "protocolMsg"
    /\ Head(inbox).msg.Type = TypeForm
    /\ ParsePayloadErr(Head(inbox).msg, FormSchema)
    /\ Deliver

(* C6: a form message whose payload fails to decode moves the session to    *)
(* StateError and leaves every pending request (ids and widgets), the log  *)
(* and the streaming buffer as they were; a listen command is armed again. *)
C6_MalformedFormSafe ==
    [][BadFormArrives
       => /\ model'.state = StateError
          /\ Deref(model'.lastError) = [Message |-> "Invalid form payload", Retryable |-> FALSE]
          /\ model'.currentForm = model.currentForm
          /\ model'.currentFormID = model.currentFormID
          /\ model'.currentConfirm = model.currentConfirm
          /\ model'.currentConfirmID = model.currentConfirmID
          /\ model'.currentSelect = model.currentSelect
          /\ model'.currentSelectID = model.currentSelectID
          /\ model'.messages = model.messages
          /\ model'.streamingText = model.streamingText
          /\ listeners' = listeners + 1]_vars

(* Reached: the malformed form arrived while form A was pending and a       *)
(* stream was under way.                                                   *)
C6_Witness ==
    /\ model.state = StateError
    /\ Deref(model.lastError).Message = "Invalid form payload"
    /\ model.currentForm # Nil
    /\ model.currentFormID = "A"
    /\ model.streamingText = <<"H">>
    /\ listeners = 1

---------------------------------------------------------------------------
(* Text streaming (claim C7). *)

BadTextLine == Envelope(Message(TypeText, "", Ptr([content |-> JNum(1)])))

StreamLines ==
    {TextLine(<<"a">>, FALSE), TextLine(<<"b">>, FALSE), TextLine(<<"b">>, TRUE),
     TextLine(<<>>, TRUE), ClearLine(<<"chat">>), BadTextLine}

NextStream ==
    \/ \E p \in Pumps : ReadLoopTop(p)
    \/ \E p \in Pumps : ReadLoopRead(p, StreamLines, MaxLines + 1)
    \/ \E p \in Pumps : ReadLoopSendMsg(p)
    \/ ListenIncoming
    \/ Deliver

SpecStream == Init /\ [][NextStream]_vars

IsTextChunk(e) ==
    /\ e.kind = "protocolMsg"
    /\ e.msg.Type = TypeText
    /\ ~ParsePayloadErr(e.msg, TextSchema)

ChunkContent(e) == PayloadField(e.msg, "content", "string", <<>>)
ChunkDone(e) == PayloadField(e.msg, "done", "bool", FALSE)

(* The contents, concatenated, of the Text chunks in the first n events of  *)
(* h that follow its last chunk with done=true.                            *)
RECURSIVE ChunksSinceDone(_, _)
ChunksSinceDone(h, n) ==
    IF n = 0 THEN <<>>
    ELSE IF ~IsTextChunk(h[n]) THEN ChunksSinceDone(h, n - 1)
    ELSE IF ChunkDone(h[n]) THEN <<>>
    ELSE ChunksSinceDone(h, n - 1) \o ChunkContent(h[n])

(* C7: a Text chunk with done=false appends its content to the buffer and   *)
(* adds no log entry; a chunk with done=true adds exactly one assistant    *)
(* entry, the concatenation of the chunks since the last done, and leaves  *)
(* the buffer empty.                                                       *)
C7_TextStreaming ==
    [][(inbox # <<>> /\ IsTextChunk(Head(inbox)) /\ Deliver)
       => LET all == ChunksSinceDone(delivered, Len(delivered))
                         \o ChunkContent(Head(inbox))
          IN  IF ChunkDone(Head(inbox))
              THEN /\ model'.messages =
                          Append(model.messages, LogEntry("assistant", all, FALSE, <<>>))
                   /\ model'.streamingText = <<>>
              ELSE /\ model'.messages = model.messages
                   /\ model'.streamingText = all]_vars

(* Reached: two chunks were finalized as one log entry. *)
C7_Witness ==
    /\ Len(delivered) >= 2
    /\ model.messages # <<>>
    /\ model.messages[Len(model.messages)] = LogEntry("assistant", <<"a", "b">>, FALSE, <<>>)
    /\ model.streamingText = <<>>

---------------------------------------------------------------------------
(* The read pump, the queues and the listen command (claims C8 to C10). *)

PumpLines == {StatusLine(<<"1">>), StatusLine(<<"2">>), Garbage, Blank}

NextPump ==
    \/ \E p \in Pumps : ReadLoopTop(p)
    \/ \E p \in Pumps : ReadLoopRead(p, PumpLines, MaxLines + 1)
    \/ \E p \in Pumps : ReadLoopEOF(p)
    \/ \E p \in Pumps : ReadLoopReadFail(p)
    \/ \E p \in Pumps : ReadLoopSendErr(p)
    \/ \E p \in Pumps : ReadLoopSendMsg(p)
    \/ \E p \in Pumps : ReadLoopDone(p)
    \/ Stop
    \/ ListenIncoming
    \/ ListenClosed
    \/ ListenErrors
    \/ Deliver
    \/ KeyPress({"ctrl+c"}, {TRUE})

SpecPump == Init /\ [][NextPump]_vars

IsMsg(e) == e.kind = "protocolMsg"
IsErr(e) == e.kind = "protocolErrorMsg"
Msgs(h) == SelectSeq(h, IsMsg)
Errs(h) == SelectSeq(h, IsErr)
MsgsAndErrs(h) == SelectSeq(h, LAMBDA e : IsMsg(e) \/ IsErr(e))

(* The messages on their way from readLoop to Update, oldest first. *)
InFlight ==
    Msgs(inbox)
    \o [i \in 1..Len(incoming) |-> protocolMsg(incoming[i].msg, incoming[i].line)]
    \o (IF rl[1].pc = "sendMsg"
        THEN <<protocolMsg(Deref(rl[1].held).msg, Deref(rl[1].held).line)>> ELSE <<>>)

(* C8: Update receives the decoded messages in the order of their lines:    *)
(* what it has received is a prefix of what readLoop decoded, and until    *)
(* Stop every decoded message is delivered or on its way, once, in order.  *)
C8_MessagesInOrder ==
    /\ IsPrefix(Msgs(delivered), Msgs(produced))
    /\ ~done => Msgs(produced) = Msgs(delivered) \o InFlight

(* Reached: two messages, with a line that failed to decode between them,   *)
(* were delivered.                                                         *)
C8_Witness ==
    /\ Len(Msgs(delivered)) >= 2
    /\ \E i \in 1..Len(produced) :
           /\ IsErr(produced[i])
           /\ Msgs(delivered)[1].line < produced[i].err.line
           /\ produced[i].err.line < Msgs(delivered)[2].line

(* C9 as claimed: messages and errors reach Update in the one order of the  *)
(* lines they came from.                                                   *)
C9_LineOrder == IsPrefix(MsgsAndErrs(delivered), produced)

(* C9 as amended: messages reach Update in line order among themselves, and *)
(* errors in line order among themselves.                                  *)
C9_PerQueueOrder ==
    /\ IsPrefix(Errs(delivered), Errs(produced))
    /\ IsPrefix(Msgs(delivered), Msgs(produced))

(* Reached: two errors were delivered, and an error was delivered before a  *)
(* message of an earlier line.                                             *)
C9_Witness ==
    /\ Len(Errs(delivered)) >= 2
    /\ \E i, j \in 1..Len(delivered) :
           /\ i < j
           /\ IsErr(delivered[i]) /\ IsMsg(delivered[j])
           /\ delivered[j].line < delivered[i].err.line

(* C10: once no listen command is armed or on its way, no error is left on  *)
(* the error queue: each was delivered to Update.                          *)
C10_ErrorsDelivered ==
    (running /\ listeners = 0 /\ inbox = <<>>) => errors = <<>>

---------------------------------------------------------------------------
(* The handler on its own: goroutines call Send, SendSync and Stop, and     *)
(* consumers receive from Incoming() and Errors(), in any interleaving.    *)

HandlerLines == {StatusLine(<<"1">>), Garbage}

NextHandler ==
    \/ \E p \in Pumps : ReadLoopTop(p)
    \/ \E p \in Pumps : ReadLoopRead(p, HandlerLines, MaxLines - 1)
    \/ \E p \in Pumps : ReadLoopEOF(p)
    \/ \E p \in Pumps : ReadLoopSendErr(p)
    \/ \E p \in Pumps : ReadLoopSendMsg(p)
    \/ \E p \in Pumps : ReadLoopDone(p)
    \/ \E p \in Pumps : WriteLoopDone(p)
    \/ \E p \in Pumps : WriteLoopTake(p)
    \/ \E p \in Pumps : WriteLoopLock(p)
    \/ \E p \in Pumps, wok \in BOOLEAN : WriteLoopWrite(p, wok)
    \/ \E p \in Pumps : WriteLoopSendErr(p)
    \/ \E p \in Pumps : WriteLoopSendErrDone(p)
    \/ \E c \in Callers : SendCall(c)
    \/ \E c \in Callers : SendEnqueue(c)
    \/ \E c \in Callers : SendDiscard(c)
    \/ \E c \in Callers : SendSyncCall(c)
    \/ \E c \in Callers : SendSyncLock(c)
    \/ \E c \in Callers, wok \in BOOLEAN : SendSyncWrite(c, wok)
    \/ StopCall
    \/ IncomingReceive
    \/ ErrorsReceive

SpecHandler == Init /\ [][NextHandler]_vars

(* The handler when Start is called again, seen from its read side and    *)
(* from Stop.                                                              *)
NextStart ==
    \/ StartCall
    \/ \E p \in Pumps : ReadLoopTop(p)
    \/ \E p \in Pumps : ReadLoopRead(p, HandlerLines, MaxLines)
    \/ \E p \in Pumps : ReadLoopEOF(p)
    \/ \E p \in Pumps : ReadLoopSendErr(p)
    \/ \E p \in Pumps : ReadLoopSendMsg(p)
    \/ \E p \in Pumps : ReadLoopDone(p)
    \/ \E p \in Pumps : WriteLoopDone(p)
    \/ StopCall
    \/ IncomingReceive
    \/ ErrorsReceive

SpecStart == Init /\ [][NextStart]_vars

---------------------------------------------------------------------------
(* Errors of decoding (claims C11 and C12). *)

(* The read pump is reporting the decode error of a line. *)
ReportsDecodeError(p) ==
    /\ rl[p].pc = "sendErr"
    /\ ~done
    /\ ReadLoopSendErr(p)

(* The program is handing Update a decode error. *)
DecodeErrorArrives ==
    /\ inbox # <<>>
    /\ Head(inbox).kind = "protocolErrorMsg"
    /\ Head(inbox).err.kind = "decode"
    /\ Deliver

(* C11: a line that fails to decode is reported on the error queue and the  *)
(* read pump goes on to the next line, without closing the incoming queue; *)
(* Update shows the error as StateError, retryable, and arms a listen      *)
(* command again.                                                          *)
C11_DecodeErrorNonFatal ==
    [][/\ \A p \in Pumps :
              ReportsDecodeError(p)
              => /\ errors' = Append(errors, DecodeError(Deref(rl[p].held).line))
                 /\ rl'[p] = ReadLoopAt("top", Nil)
                 /\ incomingClosed' = incomingClosed
                 /\ incoming' = incoming
       /\ DecodeErrorArrives
          => /\ model'.state = StateError
             /\ Deref(model'.lastError) = [Message |-> "Protocol error", Retryable |-> TRUE]
             /\ listeners' = listeners + 1
             /\ running']_vars

(* Reached: the decode error of line 1 was shown, and the message of a      *)
(* later line was then delivered to Update.                                *)
C11_Witness ==
    /\ Len(delivered) >= 2
    /\ IsErr(delivered[1]) /\ delivered[1].err = DecodeError(1)
    /\ IsMsg(delivered[2]) /\ delivered[2].line > 1
    /\ model.state = StateError
    /\ Deref(model.lastError).Retryable
    /\ listeners = 1

(* A payload with a number where every payload struct has a string or an   *)
(* array, and an envelope without a payload.                               *)
BadPayload ==
    [content |-> JNum(1), message |-> JNum(1), fields |-> JNum(1), columns |-> JNum(1),
     code |-> JNum(1), options |-> JNum(1), scope |-> JNum(1), summary |-> JNum(1)]

SchemaLines ==
    {Envelope(Message(t, "", Ptr(BadPayload))) : t \in PeerTypes}
    \cup {Envelope(Message(t, "", Nil)) : t \in PeerTypes}
    \cup {StatusLine(<<"1">>)}

NextSchema ==
    \/ \E p \in Pumps : ReadLoopTop(p)
    \/ \E p \in Pumps : ReadLoopRead(p, SchemaLines, MaxLines - 1)
    \/ \E p \in Pumps : ReadLoopSendMsg(p)
    \/ ListenIncoming
    \/ Deliver

SpecSchema == Init /\ [][NextSchema]_vars

(* The program is handing Update a message of a known type whose payload   *)
(* does not decode.                                                        *)
BadPayloadArrives ==
    /\ inbox # <<>>
    /\ Head(inbox).kind = "protocolMsg"
    /\ Head(inbox).msg.Type \in PeerTypes
    /\ ParsePayloadErr(Head(inbox).msg, SchemaFor(Head(inbox).msg.Type))
    /\ Deliver

(* C12: a message of any type the peer sends whose payload fails to decode  *)
(* ends in StateError with an error that is not retryable.                 *)
C12_SchemaErrorSurfaced ==
    [][BadPayloadArrives
       => /\ model'.state = StateError
          /\ ~Deref(model'.lastError).Retryable]_vars

---------------------------------------------------------------------------
(* The end of the inbound stream (claims C13 and C14). *)

IsClosed(e) == e.kind = "connectionClosedMsg"

(* Update has processed a connectionClosedMsg. *)
ClosedProcessed == \E i \in 1..Len(delivered) : IsClosed(delivered[i])

(* C13: Update is handed at most one connectionClosedMsg, and once it has   *)
(* processed it no transport event follows: the connectionClosedMsg is the *)
(* last transport event delivered, and none is on its way.                 *)
C13_SingleClose ==
    /\ Len(SelectSeq(delivered, IsClosed)) + Len(SelectSeq(inbox, IsClosed)) <= 1
    /\ ClosedProcessed
       => /\ IsClosed(delivered[Len(delivered)])
          /\ inbox = <<>>
          /\ listeners = 0

(* Reached: the stream ended after a message, the connectionClosedMsg was   *)
(* processed, and the consumer went on to process a key press.             *)
C13_Witness ==
    /\ Len(delivered) = 2
    /\ IsMsg(delivered[1])
    /\ IsClosed(delivered[2])
    /\ model.state = StateChat
    /\ running

(* C14: the connectionClosedMsg leaves the session in StateError with an    *)
(* error that is not retryable, and from then on no step changes the state,*)
(* the log or a pending request, and nothing but a quit message is written.*)
C14_ClosedIsTerminal ==
    [][/\ (inbox # <<>> /\ IsClosed(Head(inbox)) /\ Deliver)
          => /\ model'.state = StateError
             /\ ~Deref(model'.lastError).Retryable
       /\ ClosedProcessed
          => /\ model'.state = model.state
             /\ model'.messages = model.messages
             /\ model'.currentForm = model.currentForm
             /\ model'.currentConfirm = model.currentConfirm
             /\ model'.currentSelect = model.currentSelect
             /\ written' \in {written, Append(written, QuitMessage)}]_vars

---------------------------------------------------------------------------
(* The bounded incoming queue (claim C15). *)

(* The read pump holds a decoded message that it has not yet placed. *)
HoldsMessage(p) == rl[p].pc = "sendMsg"

(* C15: the incoming queue never holds more than its capacity; until Stop   *)
(* a pump that holds a decoded message keeps it and reads no further line  *)
(* until it has placed it at the tail of the queue, which it does only     *)
(* when the queue has room; and a message leaves the queue only at its     *)
(* head, into the hands of the consumer.                                   *)
C15_Backpressure ==
    [][/\ Len(incoming') <= IncomingCap
       /\ \A p \in Pumps :
              (HoldsMessage(p) /\ ~done /\ ~done')
              => \/ rl'[p] = rl[p] /\ nlines' = nlines
                 \/ /\ Len(incoming) < IncomingCap
                    /\ incoming' = Append(incoming, Deref(rl[p].held))
                    /\ nlines' = nlines
       /\ \/ incoming' = incoming
          \/ \E p \in Pumps : HoldsMessage(p)
                              /\ incoming' = Append(incoming, Deref(rl[p].held))
          \/ /\ incoming # <<>>
             /\ incoming' = Tail(incoming)
             /\ inbox' = Append(inbox, protocolMsg(Head(incoming).msg,
                                                   Head(incoming).line))]_vars

(* Reached: the queue is full and the read pump waits with a further        *)
(* message, while the peer has more lines to write.                        *)
C15_Witness ==
    /\ Len(incoming) = IncomingCap
    /\ HoldsMessage(1)
    /\ ~done
    /\ nlines < MaxLines + 1
    /\ Len(Msgs(delivered)) = 0

---------------------------------------------------------------------------
(* Send, SendSync and Stop (claims C16 to C19). *)

(* A call of Send is in progress: the caller is in Send's select. *)
InSend(c) == calls[c].pc = "send"

(* C16: while Stop has not been called, a call of Send in progress can      *)
(* return at once: its select has a case that is ready.                    *)
C16_SendNeverBlocks ==
    \A c \in Callers :
        (InSend(c) /\ ~done /\ ~panicked) => Len(outgoing) < OutgoingCap

(* C17: a message passed to Send after Stop was called is never written. *)
C17_LateSendDiscarded ==
    \A i \in 1..Len(written) : written[i].via = "Send" => ~written[i].late

(* The goroutines inside the write section of SendSync. *)
Writing ==
    {<<"SendSync", c>> : c \in {d \in Callers : calls[d].pc = "write"}}
    \cup {<<"writeLoop", p>> : p \in {q \in Pumps : wl[q].pc = "write"}}

(* C18: at most one goroutine is inside the write section, and it is the    *)
(* holder of writeMu.                                                      *)
C18_WriteExclusion ==
    /\ Cardinality(Writing) <= 1
    /\ \A w \in Writing : writeMu = Ptr(w)

(* Reached: the write pump is inside the write section while a caller of    *)
(* SendSync waits for the lock.                                            *)
C18_Witness ==
    /\ wl[1].pc = "write"
    /\ \E c \in Callers : calls[c].pc = "lock"

(* The goroutines of the handler and of its consumers are scheduled: a step *)
(* of theirs that stays possible is taken, and a Write to the output sink  *)
(* returns. When ReadBytes returns is up to the peer, and no call of Send, *)
(* SendSync or Stop is ever required.                                      *)
FairHandler ==
    /\ WF_vars(\E p \in Pumps : ReadLoopTop(p))
    /\ WF_vars(\E p \in Pumps : ReadLoopSendErr(p))
    /\ WF_vars(\E p \in Pumps : ReadLoopSendMsg(p))
    /\ WF_vars(\E p \in Pumps : ReadLoopDone(p))
    /\ WF_vars(\E p \in Pumps : WriteLoopDone(p))
    /\ WF_vars(\E p \in Pumps : WriteLoopLock(p))
    /\ WF_vars(\E p \in Pumps, wok \in BOOLEAN : WriteLoopWrite(p, wok))
    /\ WF_vars(\E c \in Callers, wok \in BOOLEAN : SendSyncWrite(c, wok))
    /\ WF_vars(\E p \in Pumps : WriteLoopTake(p))
    /\ WF_vars(\E p \in Pumps : WriteLoopSendErr(p))
    /\ WF_vars(\E p \in Pumps : WriteLoopSendErrDone(p))
    /\ WF_vars(\E c \in Callers : SendEnqueue(c))
    /\ WF_vars(\E c \in Callers : SendDiscard(c))
    /\ WF_vars(\E c \in Callers : SendSyncLock(c))
    /\ WF_vars(IncomingReceive)
    /\ WF_vars(ErrorsReceive)

SpecHandlerFair == SpecHandler /\ FairHandler

(* C19: once Stop has been called, the read pump returns and the incoming   *)
(* queue is closed.                                                        *)
C19_StopClosesIncoming == done ~> incomingClosed

---------------------------------------------------------------------------
(* Start called again (claim C20). *)

ReadPumps == {p \in Pumps : rl[p].pc # "unstarted"}
WritePumps == {p \in Pumps : wl[p].pc # "unstarted"}

(* C20: however often Start is called, one read pump and one write pump     *)
(* run, and the incoming queue is not closed twice.                        *)
C20_StartIdempotent ==
    /\ Cardinality(ReadPumps) <= 1
    /\ Cardinality(WritePumps) <= 1
    /\ ~panicked

---------------------------------------------------------------------------
(* Smaller specifications: the session around the end of the stream, and   *)
(* the write side of the handler.                                          *)

CloseLines == {StatusLine(<<"1">>), Garbage}

NextClose ==
    \/ \E p \in Pumps : ReadLoopTop(p)
    \/ \E p \in Pumps : ReadLoopRead(p, CloseLines, MaxLines - 1)
    \/ \E p \in Pumps : ReadLoopEOF(p)
    \/ \E p \in Pumps : ReadLoopSendErr(p)
    \/ \E p \in Pumps : ReadLoopSendMsg(p)
    \/ ListenIncoming
    \/ ListenClosed
    \/ ListenErrors
    \/ Deliver
    \/ KeyPress({"enter", "a"}, {TRUE})
    \/ Tick

SpecClose == Init /\ [][NextClose]_vars

NextWrite ==
    \/ \E p \in Pumps : WriteLoopDone(p)
    \/ \E p \in Pumps : WriteLoopTake(p)
    \/ \E p \in Pumps : WriteLoopLock(p)
    \/ \E p \in Pumps, wok \in BOOLEAN : WriteLoopWrite(p, wok)
    \/ \E p \in Pumps : WriteLoopSendErr(p)
    \/ \E p \in Pumps : WriteLoopSendErrDone(p)
    \/ \E c \in Callers : SendCall(c)
    \/ \E c \in Callers : SendEnqueue(c)
    \/ \E c \in Callers : SendDiscard(c)
    \/ \E c \in Callers : SendSyncCall(c)
    \/ \E c \in Callers : SendSyncLock(c)
    \/ \E c \in Callers, wok \in BOOLEAN : SendSyncWrite(c, wok)
    \/ StopCall
    \/ ErrorsReceive

SpecWrite == Init /\ [][NextWrite]_vars

---------------------------------------------------------------------------
(* A consumer that receives from Incoming() only (claim C21). *)

NextIncomingOnly ==
    \/ \E p \in Pumps : ReadLoopTop(p)
    \/ \E p \in Pumps : ReadLoopRead(p, PumpLines, MaxLines + 1)
    \/ \E p \in Pumps : ReadLoopEOF(p)
    \/ \E p \in Pumps : ReadLoopSendErr(p)
    \/ \E p \in Pumps : ReadLoopSendMsg(p)
    \/ IncomingReceive

SpecIncomingOnly == Init /\ [][NextIncomingOnly]_vars

(* The read pump is in the select that reports a decode error. *)
ReportingDecodeError(p) == rl[p].pc = "sendErr"

(* C21: while Stop has not been called, a read pump that reports a decode   *)
(* error can go on at once, whether or not anyone receives from Errors().  *)
C21_ErrorReportNeverBlocks ==
    \A p \in Pumps :
        (ReportingDecodeError(p) /\ ~done) => Len(errors) < ErrorsCap

---------------------------------------------------------------------------
(* The reducer and the output stream (claim C22). *)

(* The program calls Update: with the result of a listen command, with a    *)
(* key press, or with a tick.                                              *)
ReducerStep ==
    \/ Deliver
    \/ KeyPress(SessionKeys, {TRUE})
    \/ Tick

(* C22: no call of Update writes to the output stream; what it sends is     *)
(* placed on the outgoing queue for the write pump.                        *)
C22_ReducerNeverWrites ==
    [][ReducerStep => written' = written]_vars

---------------------------------------------------------------------------
(* Envelopes of a type the reducer has no case for (claim C23). *)

AlertLine(message) ==
    Envelope(Message(TypeAlert, "", Ptr([message |-> JStr(message)])))
ProgressLine(message) ==
    Envelope(Message(TypeProgress, "", Ptr([message |-> JStr(message)])))
SpinnerLine(message) ==
    Envelope(Message(TypeSpinner, "", Ptr([message |-> JStr(message)])))
DoneLine(summary) ==
    Envelope(Message(TypeDone, "", Ptr([summary |-> JStr(summary)])))
UpdateLine(id) ==
    Envelope(Message(TypeUpdate, id, Ptr([id |-> JStr(<<id>>), percent |-> JNum(5)])))
(* A type of a later protocol version, with and without a payload. *)
UnknownLine(payload) == Envelope(Message("ping", "", payload))

(* The types handleProtocolMsg has a case for. *)
Handled == PeerTypes \ {TypeUpdate}

UnknownLines ==
    {FormLine("A", <<CheckboxField>>), TextLine(<<"H">>, FALSE), ProgressLine(<<"p">>),
     Garbage, UnknownLine(Nil), UnknownLine(Ptr([seq |-> JNum(1)])), UpdateLine("u")}

NextUnknown ==
    \/ \E p \in Pumps : ReadLoopTop(p)
    \/ \E p \in Pumps : ReadLoopRead(p, UnknownLines, MaxLines)
    \/ \E p \in Pumps : ReadLoopSendErr(p)
    \/ \E p \in Pumps : ReadLoopSendMsg(p)
    \/ ListenIncoming
    \/ ListenErrors
    \/ Deliver

SpecUnknown == Init /\ [][NextUnknown]_vars

(* The program is handing Update an envelope of a type it has no case for. *)
UnknownArrives ==
    /\ inbox # <<>>
    /\ Head(inbox).kind = "protocolMsg"
    /\ Head(inbox).msg.Type \notin Handled
    /\ Deliver

(* The read pump decoded a line into an envelope and holds an error for it. *)
ErrorForEnvelope ==
    \E p \in Pumps, i \in 1..Len(produced) :
        /\ rl[p].pc = "sendErr"
        /\ produced[i].kind = "protocolMsg"
        /\ Deref(rl[p].held) = DecodeError(produced[i].line)

(* C23: an envelope of a type the reducer has no case for changes nothing   *)
(* of the session (mode, log, streaming buffer, pending request, overlay),  *)
(* raises no error, writes nothing, and the step listens again.            *)
C23_UnknownTypeIgnored ==
    [][/\ UnknownArrives
          => /\ model' = model
             /\ written' = written
             /\ errors' = errors
             /\ listeners' = listeners + 1
             /\ running'
       /\ ~ErrorForEnvelope']_vars

(* An unknown envelope was handled while a form was pending, a stream was   *)
(* open and a line had been rejected.                                      *)
C23_Witness ==
    /\ model.state = StateForm
    /\ model.streamingText # <<>>
    /\ Len(delivered) = MaxLines
    /\ delivered[MaxLines].kind = "protocolMsg"
    /\ delivered[MaxLines].msg.Type \notin Handled

---------------------------------------------------------------------------
(* Messages that only change the overlay (claim C24). *)

OverlayTypes ==
    {TypeAlert, TypeStatus, TypeProgress, TypeClear, TypeDone, TypeSpinner, TypeUpdate}

OverlayLines ==
    {FormLine("A", <<CheckboxField>>), ConfirmLine("C"),
     SelectLine("D", <<<<"x">>, <<"y">>>>), Garbage,
     AlertLine(<<"a">>), StatusLine(<<"s">>), ProgressLine(<<"p">>),
     ClearLine(<<"all">>), DoneLine(<<"S">>), SpinnerLine(<<"w">>), UpdateLine("u")}

NextOverlay ==
    \/ \E p \in Pumps : ReadLoopTop(p)
    \/ \E p \in Pumps : ReadLoopRead(p, OverlayLines, MaxLines)
    \/ \E p \in Pumps : ReadLoopSendErr(p)
    \/ \E p \in Pumps : ReadLoopSendMsg(p)
    \/ ListenIncoming
    \/ ListenErrors
    \/ Deliver

SpecOverlay == Init /\ [][NextOverlay]_vars

(* The program is handing Update an overlay message whose payload decodes. *)
OverlayArrives ==
    /\ inbox # <<>>
    /\ Head(inbox).kind = "protocolMsg"
    /\ Head(inbox).msg.Type \in OverlayTypes
    /\ ~ParsePayloadErr(Head(inbox).msg, SchemaFor(Head(inbox).msg.Type))
    /\ Deliver

(* The pending request of the model: its widgets and their ids. *)
Pending(m) ==
    <<m.currentForm, m.currentFormID, m.currentConfirm, m.currentConfirmID,
      m.currentSelect, m.currentSelectID>>

(* C24: in every mode, a well-formed Alert, Status, Progress, Clear, Done,  *)
(* Spinner or Update message leaves the mode and the pending request (kind, *)
(* id, widget state) as they were and writes nothing.                      *)
C24_OverlayKeepsMode ==
    [][OverlayArrives
       => /\ model'.state = model.state
          /\ Pending(model') = Pending(model)
          /\ written' = written]_vars

(* An overlay message was handled while a request was pending, and another  *)
(* while the error of a rejected line was shown.                           *)
C24_Witness ==
    /\ Len(delivered) = MaxLines
    /\ delivered[MaxLines].kind = "protocolMsg"
    /\ delivered[MaxLines].msg.Type \in OverlayTypes
    /\ delivered[MaxLines - 1].kind = "protocolMsg"
    /\ delivered[MaxLines - 1].msg.Type \in Blocking
    /\ model.state \in Awaiting
    /\ Widget(model) # Nil

---------------------------------------------------------------------------
(* Clear and its scopes (claim C25). *)

Scopes == {<<"chat">>, <<"progress">>, <<"all">>, <<"x">>}

ClearLines ==
    {TextLine(<<"H">>, FALSE), AlertLine(<<"a">>), ProgressLine(<<"p">>)}
        \cup {ClearLine(scope) : scope \in Scopes}

NextClear ==
    \/ \E p \in Pumps : ReadLoopTop(p)
    \/ \E p \in Pumps : ReadLoopRead(p, ClearLines, MaxLines)
    \/ \E p \in Pumps : ReadLoopSendMsg(p)
    \/ ListenIncoming
    \/ Deliver

SpecClear == Init /\ [][NextClear]_vars

(* The program is handing Update a Clear message of the scope. *)
ClearArrives(scope) ==
    /\ inbox # <<>>
    /\ Head(inbox).kind = "protocolMsg"
    /\ Head(inbox).msg.Type = TypeClear
    /\ ~ParsePayloadErr(Head(inbox).msg, ClearSchema)
    /\ PayloadField(Head(inbox).msg, "scope", "string", <<>>) = scope
    /\ Deliver

(* C25: Clear of scope chat or all leaves the log and the streaming buffer  *)
(* empty; of scope progress or all leaves no progress overlay; scope        *)
(* progress keeps log and buffer, scope chat keeps the progress overlay,   *)
(* and any other scope changes nothing.                                    *)
C25_ClearByScope ==
    [][\A scope \in Scopes :
          ClearArrives(scope)
          => /\ scope \in {<<"chat">>, <<"all">>}
                   => model'.messages = <<>> /\ model'.streamingText = <<>>
             /\ scope \in {<<"progress">>, <<"all">>} => model'.currentProgress = Nil
             /\ scope = <<"progress">>
                   => /\ model'.messages = model.messages
                      /\ model'.streamingText = model.streamingText
             /\ scope = <<"chat">> => model'.currentProgress = model.currentProgress
             /\ scope \notin {<<"chat">>, <<"progress">>, <<"all">>} => model' = model]_vars

---------------------------------------------------------------------------
(* Cancelling a stream (claim C26). *)

CancelLines == {SpinnerLine(<<"w">>), TextLine(<<"H">>, FALSE), DoneLine(<<"S">>)}

NextCancel ==
    \/ \E p \in Pumps : ReadLoopTop(p)
    \/ \E p \in Pumps : ReadLoopRead(p, CancelLines, MaxLines)
    \/ \E p \in Pumps : ReadLoopSendMsg(p)
    \/ ListenIncoming
    \/ Deliver
    \/ KeyPress({"esc", "enter", "a"}, BOOLEAN)

SpecCancel == Init /\ [][NextCancel]_vars

(* C26: in StateChat with isStreaming set, esc hands exactly one cancel     *)
(* message to the output stream (written when the stream takes it) and     *)
(* clears isStreaming in the same step, whatever the peer has sent; with   *)
(* isStreaming clear, esc writes nothing and changes nothing.              *)
C26_EscCancelsStream ==
    [][\A wok \in BOOLEAN :
          (model.state = StateChat /\ Key("esc", wok))
          => IF model.isStreaming
             THEN /\ written' = IF wok THEN Append(written, CancelMessage) ELSE written
                  /\ ~model'.isStreaming
                  /\ model'.state = StateChat
                  /\ inbox' = inbox /\ incoming' = incoming
             ELSE written' = written /\ model' = model]_vars

(* A cancel was written while the peer's text chunk was still open, and the *)
(* indicator is clear.                                                     *)
C26_Witness ==
    /\ written # <<>>
    /\ written[Len(written)] = CancelMessage
    /\ ~model.isStreaming
    /\ model.streamingText # <<>>
    /\ model.statusMessage = <<"Cancelled">>

---------------------------------------------------------------------------
(* The conversation log (claim C27). *)

LogLines ==
    {TextLine(<<"H">>, TRUE), AlertLine(<<"a">>), ClearLine(<<"chat">>),
     ClearLine(<<"progress">>)}

NextLog ==
    \/ \E p \in Pumps : ReadLoopTop(p)
    \/ \E p \in Pumps : ReadLoopRead(p, LogLines, MaxLines)
    \/ \E p \in Pumps : ReadLoopSendMsg(p)
    \/ ListenIncoming
    \/ Deliver
    \/ KeyPress({"a", "enter", "ctrl+l"}, BOOLEAN)

SpecLog == Init /\ [][NextLog]_vars

(* The step is one that clears the log: a Clear of scope chat or all, or    *)
(* the clear-chat key.                                                     *)
ClearsLog ==
    \/ ClearArrives(<<"chat">>)
    \/ ClearArrives(<<"all">>)
    \/ \E wok \in BOOLEAN : Key("ctrl+l", wok)

(* C27: every step that is not a Clear of scope chat or all, nor the        *)
(* clear-chat key, leaves the log it found as a prefix of the log it       *)
(* leaves: entries are not changed, reordered or removed.                  *)
C27_LogAppendOnly ==
    [][~ClearsLog => IsPrefix(model.messages, model'.messages)]_vars

(* The log holds a user's and an assistant's entry, and a Clear of scope    *)
(* progress was handled after them.                                        *)
C27_Witness ==
    /\ Len(model.messages) >= 2
    /\ \E i, j \in 1..Len(model.messages) :
           model.messages[i].Role = "user" /\ model.messages[j].Role # "user"
    /\ delivered # <<>>
    /\ delivered[Len(delivered)].kind = "protocolMsg"
    /\ delivered[Len(delivered)].msg.Type = TypeClear

---------------------------------------------------------------------------
(* protocol/types.go: the codec of envelopes and payloads (claim C28).      *)

(* A payload struct is a function from the JSON names of its fields to      *)
(* their values, every field present. Tags gives each field's kind and     *)
(* whether its tag says omitempty.                                         *)
Tag(kind, omitempty) == [kind |-> kind, omitempty |-> omitempty]

Tags(type) ==
    CASE type = TypeText -> [content |-> Tag("string", FALSE), done |-> Tag("bool", TRUE)]
      [] type = TypeDone -> [summary |-> Tag("string", TRUE)]
      [] type = TypeClear -> [scope |-> Tag("string", FALSE)]
      [] type = TypeConfirmResponse -> [confirmed |-> Tag("bool", FALSE)]

Zero(kind) == IF kind = "bool" THEN JBool(FALSE) ELSE JStr(<<>>)

(* json.Marshal of a struct: a field tagged omitempty is left out when it   *)
(* holds its zero value.                                                   *)
MarshalStruct(type, p) ==
    [f \in {g \in DOMAIN Tags(type) :
                ~(Tags(type)[g].omitempty /\ p[g] = Zero(Tags(type)[g].kind))} |-> p[f]]

(* json.Unmarshal into a struct: an absent member leaves the zero value. *)
UnmarshalStruct(type, o) ==
    [f \in DOMAIN Tags(type) |->
        IF f \in DOMAIN o /\ o[f].k = Tags(type)[f].kind THEN o[f]
        ELSE Zero(Tags(type)[f].kind)]

(* UpdatePayload: ID is tagged "id", Fields is tagged "-" and the type has  *)
(* no MarshalJSON, so json.Marshal writes the id alone.                    *)
UpdatePayload(id, fields) == [ID |-> id, Fields |-> fields]

MarshalUpdate(u) == [id |-> JStr(u.ID)]

UnmarshalUpdate(o) ==
    UpdatePayload(IF "id" \in DOMAIN o /\ o["id"].k = "string" THEN o["id"].v ELSE <<>>,
                  [f \in DOMAIN o \ {"id"} |-> o[f]])

Marshal(type, p) ==
    IF type = TypeUpdate THEN MarshalUpdate(p) ELSE MarshalStruct(type, p)

Unmarshal(type, o) ==
    IF type = TypeUpdate THEN UnmarshalUpdate(o) ELSE UnmarshalStruct(type, o)

NewMessageWithID(type, id, p) == Message(type, id, Ptr(Marshal(type, p)))

(* json.Marshal of a Message: "id" and "payload" are tagged omitempty. *)
MarshalMessage(msg) ==
    [f \in {"type"} \cup (IF msg.ID # "" THEN {"id"} ELSE {})
                    \cup (IF msg.Payload # Nil THEN {"payload"} ELSE {}) |->
        CASE f = "type" -> JStr(msg.Type)
          [] f = "id" -> JStr(msg.ID)
          [] f = "payload" -> [k |-> "object", v |-> Deref(msg.Payload)]]

UnmarshalMessage(o) ==
    Message(Field(o, "type", "string", ""), Field(o, "id", "string", ""),
            IF "payload" \in DOMAIN o THEN Ptr(o["payload"].v) ELSE Nil)

(* What NewMessageWithID is given: a type, an id and a payload struct. *)
Typed(type, id, payload) == [Type |-> type, ID |-> id, payload |-> payload]

CodecIDs == {"", "A"}

CodecInputs ==
    {Typed(TypeText, id, [content |-> JStr(c), done |-> JBool(d)]) :
         id \in CodecIDs, c \in {<<>>, <<"H">>}, d \in BOOLEAN}
    \cup {Typed(TypeDone, id, [summary |-> JStr(s)]) : id \in CodecIDs, s \in {<<>>, <<"S">>}}
    \cup {Typed(TypeClear, id, [scope |-> JStr(<<"chat">>)]) : id \in CodecIDs}
    \cup {Typed(TypeConfirmResponse, id, [confirmed |-> JBool(b)]) :
              id \in CodecIDs, b \in BOOLEAN}
    \cup {Typed(TypeUpdate, id, UpdatePayload(<<"u">>, fields)) :
              id \in CodecIDs, fields \in {[f \in {} |-> JNum(0)], [percent |-> JNum(5)]}}

(* A caller builds an envelope from a payload struct and the envelope is     *)
(* marshalled onto the output stream (SendSync).                           *)
Encode(Inputs) ==
    /\ ncalls < MaxCalls
    /\ \E in \in Inputs :
           /\ produced' = Append(produced, in)
           /\ written' = Append(written,
                                MarshalMessage(NewMessageWithID(in.Type, in.ID, in.payload)))
    /\ ncalls' = ncalls + 1
    /\ UNCHANGED <<model, running, inbox, listeners, incoming, incomingClosed, errors,
                   done, rl, wl, outgoing, writeMu, calls, panicked, nlines, nkeys,
                   delivered, errFrom>>

(* A reader of that stream unmarshals the next line into an envelope         *)
(* (readLoop) and its payload into the struct of its type (ParsePayload).  *)
Decode ==
    /\ Len(delivered) < Len(written)
    /\ LET msg == UnmarshalMessage(written[Len(delivered) + 1])
       IN  delivered' = Append(delivered,
                               Typed(msg.Type, msg.ID,
                                     Unmarshal(msg.Type, Deref(msg.Payload))))
    /\ UNCHANGED <<model, running, inbox, listeners, incoming, incomingClosed, errors,
                   done, rl, wl, outgoing, writeMu, calls, panicked, ncalls, written,
                   nlines, nkeys, produced, errFrom>>

NextCodec ==
    \/ Encode(CodecInputs)
    \/ Decode

SpecCodec == Init /\ [][NextCodec]_vars

(* C28: what is decoded from an encoded envelope equals what was encoded:   *)
(* the same type, the same id, the same payload fields, the extension      *)
(* fields of an update included.                                           *)
C28_RoundTrip ==
    \A i \in 1..Len(delivered) : delivered[i] = produced[i]

---------------------------------------------------------------------------
(* Done (claim C29). *)

DoneLines ==
    {TextLine(<<"H", "i">>, TRUE), TextLine(<<"H">>, FALSE), SpinnerLine(<<"w">>),
     ProgressLine(<<"p">>), DoneLine(<<"S">>), DoneLine(<<>>),
     Envelope(Message(TypeDone, "", Nil)),
     Envelope(Message(TypeDone, "", Ptr([summary |-> JNum(1)])))}

NextDone ==
    \/ \E p \in Pumps : ReadLoopTop(p)
    \/ \E p \in Pumps : ReadLoopRead(p, DoneLines, MaxLines)
    \/ \E p \in Pumps : ReadLoopSendMsg(p)
    \/ ListenIncoming
    \/ Deliver

SpecDone == Init /\ [][NextDone]_vars

(* The program is handing Update a Done message. *)
DoneArrives ==
    /\ inbox # <<>>
    /\ Head(inbox).kind = "protocolMsg"
    /\ Head(inbox).msg.Type = TypeDone
    /\ Deliver

(* The session was sent the text "Hi" with done set and then Done with the  *)
(* summary S, and nothing else.                                            *)
HiThenDone ==
    /\ Len(delivered) = 2
    /\ delivered[1].kind = "protocolMsg"
    /\ delivered[1].msg = TextLine(<<"H", "i">>, TRUE).msg
    /\ delivered[2].kind = "protocolMsg"
    /\ delivered[2].msg = DoneLine(<<"S">>).msg

(* C29: text "Hi" with done set followed by Done with summary S leaves one  *)
(* assistant entry "Hi", the status S and no streaming indicator; every    *)
(* Done clears the indicator and the progress overlay and sets the status  *)
(* to its summary when it has one.                                         *)
C29_DoneScenario ==
    [][/\ DoneArrives
          => /\ ~model'.isStreaming
             /\ model'.currentProgress = Nil
             /\ PayloadField(Head(inbox).msg, "summary", "string", <<>>) # <<>>
                   => model'.statusMessage =
                          PayloadField(Head(inbox).msg, "summary", "string", <<>>)
             /\ model'.messages = model.messages
       /\ HiThenDone'
          => /\ model'.messages = <<LogEntry("assistant", <<"H", "i">>, FALSE, <<>>)>>
             /\ model'.statusMessage = <<"S">>
             /\ ~model'.isStreaming
             /\ model'.streamingText = <<>>]_vars

C29_Witness ==
    /\ HiThenDone
    /\ model.statusMessage = <<"S">>
    /\ Len(model.messages) = 1

---------------------------------------------------------------------------
(* The end of the inbound stream and the write side (claim C30): the peer  *)
(* closes its stream, or the read fails, before it has written a line, and *)
(* one goroutine calls Send and SendSync, one call after the other.        *)

NextReadEnd ==
    \/ \E p \in Pumps : ReadLoopTop(p)
    \/ \E p \in Pumps : ReadLoopEOF(p)
    \/ \E p \in Pumps : ReadLoopReadFail(p)
    \/ \E p \in Pumps : ReadLoopSendErr(p)
    \/ \E p \in Pumps : ReadLoopDone(p)
    \/ \E p \in Pumps : WriteLoopDone(p)
    \/ \E p \in Pumps : WriteLoopTake(p)
    \/ \E p \in Pumps : WriteLoopLock(p)
    \/ \E p \in Pumps, wok \in BOOLEAN : WriteLoopWrite(p, wok)
    \/ \E p \in Pumps : WriteLoopSendErr(p)
    \/ \E p \in Pumps : WriteLoopSendErrDone(p)
    \/ \E c \in {1} : SendCall(c)
    \/ \E c \in {1} : SendEnqueue(c)
    \/ \E c \in {1} : SendDiscard(c)
    \/ \E c \in {1} : SendSyncCall(c)
    \/ \E c \in {1} : SendSyncLock(c)
    \/ \E c \in {1}, wok \in BOOLEAN : SendSyncWrite(c, wok)
    \/ StopCall
    \/ ErrorsReceive

SpecReadEnd == Init /\ [][NextReadEnd]_vars

(* Goroutines are scheduled fairly: a pump or a call that can take its next *)
(* step takes it. Nothing makes the peer write or close, or a caller call.  *)
SpecReadEndFair == SpecReadEnd /\ FairHandler

(* The read pump p stops on an I/O failure: ReadBytes returned io.EOF, or   *)
(* another error that the pump has now reported.                           *)
ReadFailureExit(p) ==
    \/ ReadLoopEOF(p)
    \/ rl[p].pc = "sendErrFatal" /\ ReadLoopSendErr(p)

(* Call n was made after incoming was closed and its message is on its way: *)
(* held by the call, in the outgoing queue, or held by the write pump.     *)
OnItsWay(n) ==
    \/ \E c \in Callers :
           calls[c].held # Nil /\ Deref(calls[c].held).n = n /\ Deref(calls[c].held).ended
    \/ \E i \in 1..Len(outgoing) : outgoing[i].n = n /\ outgoing[i].ended
    \/ \E p \in Pumps :
           /\ wl[p].pc \in {"lock", "write"}
           /\ Deref(wl[p].held).n = n /\ Deref(wl[p].held).ended

(* C30: the read pump stopping on EOF or a read error closes incoming and   *)
(* changes nothing of the shutdown signal or the write side; the write     *)
(* pump stops only after Stop; and a message passed to Send or SendSync    *)
(* after incoming was closed goes through to the write on the output       *)
(* stream, unless Stop is called.                                          *)
C30_ReadFailureLocal ==
    /\ [][/\ \A p \in Pumps :
                ReadFailureExit(p)
                => /\ incomingClosed'
                   /\ rl'[p].pc = "exited"
                   /\ done' = done
                   /\ wl' = wl /\ outgoing' = outgoing /\ written' = written
          /\ \A p \in Pumps : wl'[p].pc = "exited" => done'
          /\ \A p \in Pumps, wok \in BOOLEAN :
                WriteLoopWrite(p, wok) /\ wok
                => written' = Append(written, Deref(wl[p].held))]_vars
    /\ \A n \in 1..MaxCalls : OnItsWay(n) ~> (~OnItsWay(n) \/ done)

(* Incoming is closed, Stop was not called, and the output stream holds a   *)
(* message that Send accepted after the close and one that SendSync wrote. *)
C30_Witness ==
    /\ incomingClosed /\ ~done
    /\ \E i \in 1..Len(written) : written[i].ended /\ written[i].via = "Send"
    /\ \E i \in 1..Len(written) : written[i].ended /\ written[i].via = "SendSync"

---------------------------------------------------------------------------
(* The order of the write pump (claim C31): one goroutine calls Send, one   *)
(* call after the other, so a call with a smaller number has returned      *)
(* before a call with a larger number begins.                              *)

NextOrder ==
    \/ StartCall
    \/ \E p \in Pumps : WriteLoopTake(p)
    \/ \E p \in Pumps : WriteLoopLock(p)
    \/ \E p \in Pumps, wok \in BOOLEAN : WriteLoopWrite(p, wok)
    \/ \E p \in Pumps : WriteLoopSendErr(p)
    \/ \E c \in {1} : SendCall(c)
    \/ \E c \in {1} : SendEnqueue(c)
    \/ ErrorsReceive

SpecOrder == Init /\ [][NextOrder]_vars

(* C31: the messages enqueued through Send are on the output stream in the  *)
(* order of their calls, each line whole before the next.                  *)
C31_WriteFIFO ==
    \A i, j \in 1..Len(written) :
        (i < j /\ written[i].via = "Send" /\ written[j].via = "Send")
        => written[i].n < written[j].n

---------------------------------------------------------------------------
(* Write failures with nobody receiving from Errors() (claim C32). The      *)
(* error queue is shared with the read pump, whose peer writes undecodable *)
(* lines.                                                                  *)

NextWriteFail ==
    \/ \E p \in Pumps : ReadLoopTop(p)
    \/ \E p \in Pumps : ReadLoopRead(p, {Garbage}, MaxLines)
    \/ \E p \in Pumps : ReadLoopSendErr(p)
    \/ \E p \in Pumps : WriteLoopTake(p)
    \/ \E p \in Pumps : WriteLoopLock(p)
    \/ \E p \in Pumps, wok \in BOOLEAN : WriteLoopWrite(p, wok)
    \/ \E p \in Pumps : WriteLoopSendErr(p)
    \/ \E c \in {1} : SendCall(c)
    \/ \E c \in {1} : SendEnqueue(c)

SpecWriteFail == Init /\ [][NextWriteFail]_vars

(* C32: the write pump is never held up by the report of a write failure:   *)
(* when it has an error to report and Stop was not called, the report can  *)
(* be made, so the pump goes on to the next message of the queue.          *)
C32_WriteFailureNeverBlocks ==
    \A p \in Pumps :
        (wl[p].pc = "sendErr" /\ ~done) => Len(errors) < ErrorsCap

---------------------------------------------------------------------------
(* The listen command (claim C33). *)

(* The terminal is resized; nkeys counts the local events of the user. *)
Resize(wok) ==
    /\ running
    /\ nkeys < MaxKeys
    /\ Step(WindowSizeMsg, wok)
    /\ nkeys' = nkeys + 1
    /\ UNCHANGED <<inbox, incoming, incomingClosed, errors, done, rl, nlines, produced>>
    /\ UNCHANGED hvars

NextListen ==
    \/ \E p \in Pumps : ReadLoopTop(p)
    \/ \E p \in Pumps : ReadLoopRead(p, CloseLines, MaxLines - 1)
    \/ \E p \in Pumps : ReadLoopEOF(p)
    \/ \E p \in Pumps : ReadLoopSendErr(p)
    \/ \E p \in Pumps : ReadLoopSendMsg(p)
    \/ ListenIncoming
    \/ ListenClosed
    \/ ListenErrors
    \/ Deliver
    \/ KeyPress({"enter", "a"}, BOOLEAN)
    \/ \E wok \in BOOLEAN : Resize(wok)
    \/ Tick

SpecListen == Init /\ [][NextListen]_vars

(* The listen commands outstanding: those waiting on the queues and those   *)
(* whose result the program has not yet handed to Update.                  *)
Outstanding == listeners + Len(inbox)

(* C33: until Update has processed the connectionClosedMsg exactly one      *)
(* listen command is outstanding, and none afterwards; a key, a resize or a *)
(* tick arms none, and a peer message or a protocol error handed to Update  *)
(* arms exactly one.                                                       *)
C33_SingleListener ==
    /\ [](Outstanding = IF ClosedProcessed THEN 0 ELSE 1)
    /\ [][/\ (KeyPress({"enter", "a"}, BOOLEAN) \/ (\E wok \in BOOLEAN : Resize(wok)) \/ Tick)
             => listeners' = listeners /\ inbox' = inbox
          /\ (Deliver /\ ~IsClosed(Head(inbox)))
             => listeners' = listeners + 1 /\ inbox' = Tail(inbox)
          /\ (Deliver /\ IsClosed(Head(inbox))) => listeners' = listeners]_vars

(* A protocol error and the end of the stream were processed, with a key    *)
(* and a resize between them.                                              *)
C33_Witness ==
    /\ Len(delivered) = 2
    /\ IsErr(delivered[1])
    /\ IsClosed(delivered[2])
    /\ nkeys = MaxKeys
    /\ written # <<>>
    /\ Outstanding = 0

---------------------------------------------------------------------------
(* The key that dismisses the error (claim C34). *)

DismissKeys == {"esc", "enter", "a"}

NextDismiss ==
    \/ \E p \in Pumps : ReadLoopTop(p)
    \/ \E p \in Pumps : ReadLoopRead(p, {SpinnerLine(<<"w">>), Garbage}, MaxLines)
    \/ \E p \in Pumps : ReadLoopSendErr(p)
    \/ \E p \in Pumps : ReadLoopSendMsg(p)
    \/ ListenIncoming
    \/ ListenErrors
    \/ Deliver
    \/ KeyPress(DismissKeys, {TRUE})

SpecDismiss == Init /\ [][NextDismiss]_vars

(* C34: the key press that dismisses StateError does nothing else to the    *)
(* session's output: it writes no message and leaves the log and the       *)
(* streaming indicator as they were.                                       *)
C34_DismissConsumesKey ==
    [][\A key \in DismissKeys :
          (model.state = StateError /\ Key(key, TRUE))
          => /\ written' = written
             /\ model'.messages = model.messages
             /\ model'.isStreaming = model.isStreaming]_vars

---------------------------------------------------------------------------
(* The user's turn (claim C35). *)

TurnLines ==
    {TextLine(<<"H">>, TRUE), TextLine(<<"H">>, FALSE), DoneLine(<<"S">>),
     SpinnerLine(<<"w">>)}

TurnKeys == {"a", " ", "enter", "esc"}

NextTurn ==
    \/ \E p \in Pumps : ReadLoopTop(p)
    \/ \E p \in Pumps : ReadLoopRead(p, TurnLines, MaxLines - 1)
    \/ \E p \in Pumps : ReadLoopSendMsg(p)
    \/ ListenIncoming
    \/ Deliver
    \/ KeyPress(TurnKeys, BOOLEAN)

SpecTurn == Init /\ [][NextTurn]_vars

(* The program is handing Update a text chunk with done set. *)
TextDoneArrives ==
    /\ inbox # <<>>
    /\ Head(inbox).kind = "protocolMsg"
    /\ Head(inbox).msg.Type = TypeText
    /\ ~ParsePayloadErr(Head(inbox).msg, TextSchema)
    /\ PayloadField(Head(inbox).msg, "done", "bool", FALSE)
    /\ Deliver

(* The user's entry for the text of the input. *)
UserEntry(m) == LogEntry("user", TrimSpace(m.input), FALSE, <<>>)

(* The step is enter in StateChat with the indicator clear and text in the  *)
(* input, and the write of the message succeeds or not.                    *)
EnterSends(wok) ==
    /\ model.state = StateChat
    /\ ~model.isStreaming
    /\ TrimSpace(model.input) # <<>>
    /\ Key("enter", wok)

(* The step is enter in StateChat with the indicator set or nothing to send. *)
EnterIdle ==
    /\ model.state = StateChat
    /\ model.isStreaming \/ TrimSpace(model.input) = <<>>
    /\ \E wok \in BOOLEAN : Key("enter", wok)

(* A turn starts with the indicator clear and ends with a text chunk with   *)
(* done set, a Done message or esc.                                        *)
TurnBoundaries ==
    /\ (written' # written /\ written'[Len(written')].Type = TypeInput)
       => ~model.isStreaming
    /\ (model.isStreaming /\ ~model'.isStreaming)
       => (TextDoneArrives \/ DoneArrives \/ \E wok \in BOOLEAN : Key("esc", wok))

(* C35, as the code has it: with the indicator set enter writes nothing and *)
(* appends nothing, so no second input message is written before a text    *)
(* chunk with done set, a Done message or esc; with the indicator clear    *)
(* and text in the input, enter appends one user entry and, when the write *)
(* succeeds, writes one input message with that text and sets the          *)
(* indicator; when the write fails it writes nothing, leaves the indicator *)
(* clear and shows the error.                                              *)
C35_OneTurnInFlight ==
    [][/\ EnterIdle
          => /\ written' = written
             /\ model'.messages = model.messages
             /\ model'.isStreaming = model.isStreaming
       /\ \A wok \in BOOLEAN :
             EnterSends(wok)
             => /\ model'.messages = Append(model.messages, UserEntry(model))
                /\ IF wok
                   THEN /\ written' = Append(written, InputMessage(TrimSpace(model.input)))
                        /\ model'.isStreaming
                   ELSE /\ written' = written
                        /\ ~model'.isStreaming
                        /\ model'.state = StateError
       /\ TurnBoundaries]_vars

(* C35 as stated: with the indicator clear and text in the input, enter     *)
(* always writes one input message and sets the indicator.                 *)
C35_EnterAlwaysSends ==
    [][\A wok \in BOOLEAN :
          EnterSends(wok)
          => /\ model'.messages = Append(model.messages, UserEntry(model))
             /\ written' = Append(written, InputMessage(TrimSpace(model.input)))
             /\ model'.isStreaming]_vars

(* An input message was written and its turn is in flight. *)
C35_Witness ==
    /\ written # <<>>
    /\ written[Len(written)].Type = TypeInput
    /\ model.isStreaming
    /\ Len(model.messages) = 1
    /\ model.messages[1].Role = "user"
    /\ nkeys = MaxKeys

---------------------------------------------------------------------------
(* What empties the streaming buffer (claim C36). *)

BufferLines ==
    {TextLine(<<"H">>, FALSE), TextLine(<<"i">>, TRUE), DoneLine(<<"S">>),
     SpinnerLine(<<"w">>)}

NextBuffer ==
    \/ \E p \in Pumps : ReadLoopTop(p)
    \/ \E p \in Pumps : ReadLoopRead(p, BufferLines, MaxLines)
    \/ \E p \in Pumps : ReadLoopSendMsg(p)
    \/ ListenIncoming
    \/ Deliver
    \/ KeyPress({"esc", "ctrl+l"}, BOOLEAN)

SpecBuffer == Init /\ [][NextBuffer]_vars

(* The program is handing Update a text chunk whose payload decodes. *)
TextArrives ==
    /\ inbox # <<>>
    /\ Head(inbox).kind = "protocolMsg"
    /\ Head(inbox).msg.Type = TypeText
    /\ ~ParsePayloadErr(Head(inbox).msg, TextSchema)
    /\ Deliver

(* C36: only a text chunk changes the streaming buffer, and only one with   *)
(* done set empties it: a Done message, esc and ctrl+l leave it as it is,   *)
(* and the text chunk with done set appends to the log one entry made of   *)
(* the buffer, whatever came between, and the chunk's content.             *)
C36_BufferOnlyFlushedByText ==
    [][/\ model'.streamingText # model.streamingText => TextArrives
       /\ (model.streamingText # <<>> /\ model'.streamingText = <<>>) => TextDoneArrives
       /\ (DoneArrives \/ KeyPress({"esc", "ctrl+l"}, BOOLEAN))
          => model'.streamingText = model.streamingText
       /\ TextDoneArrives
          => /\ model'.streamingText = <<>>
             /\ model'.messages =
                    Append(model.messages,
                           LogEntry("assistant",
                                    model.streamingText
                                        \o PayloadField(Head(inbox).msg, "content", "string", <<>>),
                                    FALSE, <<>>))]_vars

(* A chunk, then a Done message and esc, then the chunk with done set: the  *)
(* entry holds the content of both chunks.                                 *)
C36_Witness ==
    /\ Len(delivered) = MaxLines
    /\ delivered[1].msg.Type = TypeText
    /\ delivered[2].msg.Type = TypeDone
    /\ delivered[MaxLines].msg.Type = TypeText
    /\ nkeys > 0
    /\ model.streamingText = <<>>
    /\ model.messages # <<>>
    /\ model.messages[Len(model.messages)].Content = <<"H", "i">>

---------------------------------------------------------------------------
(* A response whose write fails (claim C37). Update's first switch returns  *)
(* for every key, so the program itself never hands a key to the widgets;  *)
(* here the second switch of Update is applied to the key, as a function   *)
(* of the model, the message and the outcome of the write.                 *)

ComponentKey(key, wok) ==
    /\ running
    /\ nkeys < MaxKeys
    /\ LET r == UpdateComponents(model, KeyMsg(key), wok)
       IN  /\ model' = r.m
           /\ written' = IF wok THEN written \o r.out ELSE written
           /\ errFrom' = IF model.state # StateError /\ r.m.state = StateError
                         THEN model.state ELSE errFrom
    /\ nkeys' = nkeys + 1
    /\ UNCHANGED <<running, inbox, listeners, incoming, incomingClosed, errors, done,
                   rl, nlines, produced, delivered>>
    /\ UNCHANGED hvars

RespondKeys == {"y", "n", "enter", "esc"}

NextRespond ==
    \/ \E p \in Pumps : ReadLoopTop(p)
    \/ \E p \in Pumps :
           ReadLoopRead(p, {FormLine("A", <<CheckboxField>>), ConfirmLine("C"),
                            SelectLine("D", <<<<"x">>, <<"y">>>>)}, MaxLines - 1)
    \/ \E p \in Pumps : ReadLoopSendMsg(p)
    \/ ListenIncoming
    \/ Deliver
    \/ \E key \in RespondKeys, wok \in BOOLEAN : ComponentKey(key, wok)

SpecRespond == Init /\ [][NextRespond]_vars

---------------------------------------------------------------------------
(* A last line without a newline (claim C38). *)

PartialLines == {StatusLine(<<"2">>), Garbage}

NextPartial ==
    \/ \E p \in Pumps : ReadLoopTop(p)
    \/ \E p \in Pumps : ReadLoopRead(p, PumpLines, MaxLines - 1)
    \/ \E p \in Pumps : ReadLoopEOF(p)
    \/ \E p \in Pumps : ReadLoopEOFPartial(p, PartialLines)
    \/ \E p \in Pumps : ReadLoopSendErr(p)
    \/ \E p \in Pumps : ReadLoopSendMsg(p)
    \/ IncomingReceive
    \/ ErrorsReceive

SpecPartial == Init /\ [][NextPartial]_vars

(* Line n of the stream is on its way to the consumer or has reached it, as *)
(* a message or as an error.                                               *)
LineSeen(n) ==
    \/ \E i \in 1..Len(incoming) : incoming[i].line = n
    \/ \E i \in 1..Len(errors) : errors[i].line = n
    \/ \E i \in 1..Len(delivered) :
           \/ IsMsg(delivered[i]) /\ delivered[i].line = n
           \/ IsErr(delivered[i]) /\ delivered[i].err.line = n

(* C38: when the stream ends with a line that has no newline, the read pump *)
(* returns and closes incoming without putting anything on the incoming or *)
(* the error queue, and that line never reaches the consumer, as a message *)
(* or as an error, whether or not it is a well-formed envelope.            *)
C38_UnterminatedLineDropped ==
    /\ [][\A p \in Pumps :
             ReadLoopEOFPartial(p, PartialLines)
             => /\ rl'[p].pc = "exited"
                /\ incomingClosed'
                /\ incoming' = incoming
                /\ errors' = errors]_vars
    /\ [](\A n \in 1..MaxLines :
             (nlines = n /\ \E p \in Pumps : rl[p].pc = "exited" /\ rl[p].held # Nil)
             => ~LineSeen(n))

(* The stream ended with a well-formed envelope that has no newline, after  *)
(* a line that was delivered: the consumer has the first line only.         *)
C38_Witness ==
    /\ rl[1].pc = "exited"
    /\ rl[1].held # Nil
    /\ Deref(rl[1].held).dropped.kind = "envelope"
    /\ incomingClosed
    /\ Len(delivered) = 1
    /\ IsMsg(delivered[1])
    /\ incoming = <<>> /\ errors = <<>>

---------------------------------------------------------------------------
(* The quit key (claim C39). *)

QuitLines ==
    {FormLine("A", <<CheckboxField>>), ConfirmLine("C"),
     SelectLine("D", <<<<"x">>, <<"y">>>>), Garbage}

NextQuit ==
    \/ \E p \in Pumps : ReadLoopTop(p)
    \/ \E p \in Pumps : ReadLoopRead(p, QuitLines, MaxLines - 1)
    \/ \E p \in Pumps : ReadLoopSendErr(p)
    \/ \E p \in Pumps : ReadLoopSendMsg(p)
    \/ ListenIncoming
    \/ ListenErrors
    \/ Deliver
    \/ KeyPress({"ctrl+c", "a"}, BOOLEAN)

SpecQuit == Init /\ [][NextQuit]_vars

(* C39: in every state of the interface ctrl+c hands exactly one quit       *)
(* message to the output stream (written when the stream takes it) and     *)
(* ends the program; it writes no response for the pending request, and of *)
(* the model it changes the quitting flag only. Once the program has       *)
(* ended, nothing more is written and the model stays as it is.            *)
C39_QuitKey ==
    /\ [][\A wok \in BOOLEAN :
             Key("ctrl+c", wok)
             => /\ written' = IF wok THEN Append(written, QuitMessage) ELSE written
                /\ ~running'
                /\ model' = [model EXCEPT !.quitting = TRUE]
                /\ listeners' = listeners]_vars
    /\ [][~running => (written' = written /\ model' = model /\ ~running')]_vars

(* The program has ended on ctrl+c with a request pending: the quit message *)
(* is the only message written.                                            *)
C39_Witness ==
    /\ ~running
    /\ model.quitting
    /\ model.state \in Awaiting
    /\ written = <<QuitMessage>>

(* The program has ended on ctrl+c while an error was displayed. *)
C39_WitnessError ==
    /\ ~running
    /\ model.quitting
    /\ model.state = StateError
    /\ written = <<QuitMessage>>

=============================================================================
